---- MODULE Spec2Model ----
(***************************************************************************)
(* AWS perimeter guard: the association-resolution engine.                 *)
(*                                                                         *)
(*   Resource / WebACL / ScanResult      src/src/domain/entities           *)
(*   ScannerService                      src/src/application               *)
(*   Boto3AWSClient                      src/src/adapters/outbound         *)
(*                                                                         *)
(* Strings are TLA+ strings and the string operations of the code (in,     *)
(* split, startswith, f-strings) are computed character by character.      *)
(* An optional value (Python's None) is a sequence of length at most one.  *)
(***************************************************************************)
EXTENDS Integers, Sequences, FiniteSets, TLC

VARIABLES
    pc,                 \* position of the running operation
    resource,           \* Resource under evaluation (SpecResource)
    ret,                \* what the evaluated methods returned (SpecResource)
    regions,            \* scan(regions=...) / get_waf_associations_map(regions)
    resource_types,     \* scan(resource_types=...)
    include_waf_lookup, \* scan(include_waf_lookup=...)
    cloud,              \* what the AWS APIs of the account answer
    waf_map,            \* ScannerService.scan: waf_map
    origins_map,        \* origins_map (scan, get_cloudfront_origins_map)
    scan_result,        \* the ScanResult aggregate
    ri,                 \* index of the region being scanned
    ti,                 \* index of the resource type being scanned
    ei,                 \* index of the resource the propagator looks at
    associations_map,   \* get_waf_associations_map: associations_map
    work,               \* the (scope, acl, resource_arn) insertions of a build
    wi,                 \* how many of them are done
    api_log,            \* the API calls that failed, in order
    call_log,           \* the calls made on the AWS client, in order
    budget,             \* how many API calls of the run may fail
    raised,             \* the exception that left the operation, if any
    parse_arg,          \* the argument of _parse_waf_arn (SpecParse)
    invocation          \* the Lambda handler's environment and locals (SpecLambda)

vars == <<pc, resource, ret, regions, resource_types, include_waf_lookup,
          cloud, waf_map, origins_map, scan_result, ri, ti, ei,
          associations_map, work, wi, api_log, call_log, budget, raised, parse_arg,
          invocation>>

\* the variables the scan does not use, and those it only reads
notScan == <<resource, ret, associations_map, work, wi, parse_arg, invocation>>

scanEnv == <<include_waf_lookup, cloud, budget>>

-----------------------------------------------------------------------------
(* Optional values and Python truthiness                                   *)

None == <<>>

Some(x) == <<x>>

\* `if x:` for an optional object (a dataclass instance is always truthy)
Truthy(opt) == opt # None

\* `if s:` for an optional string: None and "" are both falsy
TruthyStr(opt) == opt # None /\ opt[1] # ""

-----------------------------------------------------------------------------
(* Python string operations                                                *)

\* sub in s
Contains(sub, s) ==
    \E p \in 1..(Len(s) - Len(sub) + 1) : SubSeq(s, p, p + Len(sub) - 1) = sub

\* s.find(sub) + 1: the first position of sub in s, 0 when absent
Find(sub, s) ==
    IF Contains(sub, s)
    THEN CHOOSE p \in 1..(Len(s) - Len(sub) + 1) :
            /\ SubSeq(s, p, p + Len(sub) - 1) = sub
            /\ \A q \in 1..(p - 1) : SubSeq(s, q, q + Len(sub) - 1) # sub
    ELSE 0

\* s.split(sep)
RECURSIVE Split(_, _)
Split(s, sep) ==
    LET p == Find(sep, s)
    IN  IF p = 0 THEN <<s>>
        ELSE <<SubSeq(s, 1, p - 1)>> \o Split(SubSeq(s, p + Len(sep), Len(s)), sep)

\* s.startswith(prefix)
StartsWith(s, prefix) ==
    Len(s) >= Len(prefix) /\ SubSeq(s, 1, Len(prefix)) = prefix

\* seq[-1], seq[-2]
Last(seq) == seq[Len(seq)]

SecondLast(seq) == seq[Len(seq) - 1]

-----------------------------------------------------------------------------
(* ResourceType (src/src/domain/value_objects/resource_type.py)            *)

ALB == "APPLICATION_LOAD_BALANCER"
CLOUDFRONT == "CLOUDFRONT_DISTRIBUTION"
API_GATEWAY_REST == "API_GATEWAY_REST_API"
API_GATEWAY_HTTP == "API_GATEWAY_HTTP_API"
APPSYNC == "APPSYNC_GRAPHQL_API"
COGNITO == "COGNITO_USER_POOL"
APP_RUNNER == "APP_RUNNER_SERVICE"
VERIFIED_ACCESS == "VERIFIED_ACCESS_INSTANCE"

ResourceType == {ALB, CLOUDFRONT, API_GATEWAY_REST, API_GATEWAY_HTTP,
                 APPSYNC, COGNITO, APP_RUNNER, VERIFIED_ACCESS}

-----------------------------------------------------------------------------
(* WebACL and Resource (src/src/domain/entities)                           *)

WebACL(arn, name, id, scope, region) ==
    [arn |-> arn, name |-> name, id |-> id, scope |-> scope, region |-> region]

\* Resource(...) as the listing methods construct it: no fronted-by fields
Resource(arn, resource_type, region, account_id, name, is_public, web_acl) ==
    [arn |-> arn, resource_type |-> resource_type, region |-> region,
     account_id |-> account_id, name |-> name, web_acl |-> web_acl,
     fronted_by_resource_arn |-> None, fronted_by_waf |-> None,
     fronted_by_notes |-> None, is_public |-> is_public, scanned_at |-> None]

has_waf(r) == r.web_acl # None

\* A plausible slip: the REST-gateway rule is forgotten
is_compliant_without_rest_rule(r) ==
    IF has_waf(r) THEN TRUE
    ELSE IF Truthy(r.fronted_by_waf) THEN TRUE
    ELSE IF r.resource_type = CLOUDFRONT THEN FALSE
    ELSE IF r.resource_type = ALB /\ r.is_public THEN FALSE
    ELSE TRUE

is_compliant(r) ==
    IF has_waf(r) THEN TRUE
    ELSE IF Truthy(r.fronted_by_waf) THEN TRUE
    ELSE IF r.resource_type = CLOUDFRONT THEN FALSE
    ELSE IF r.resource_type = ALB /\ r.is_public THEN FALSE
    ELSE IF r.resource_type = API_GATEWAY_REST /\ r.is_public THEN FALSE
    ELSE IF r.resource_type = API_GATEWAY_HTTP THEN TRUE
    ELSE TRUE

get_compliance_status(r) ==
    IF has_waf(r) THEN "COMPLIANT"
    ELSE IF Truthy(r.fronted_by_waf) THEN "COMPLIANT_FRONTED_BY_WAF"
    ELSE IF ~is_compliant(r) THEN "NON_COMPLIANT"
    ELSE "COMPLIANT_NO_WAF_REQUIRED"

-----------------------------------------------------------------------------
(* Outcomes of calls                                                       *)
(* An AWS API call answers, fails with botocore's ClientError, or fails    *)
(* with another exception (EndpointConnectionError, NoCredentialsError,    *)
(* ...), which no `except ClientError` clause catches.                     *)

ApiOutcome == {"ok", "client_error", "other_error"}

\* what a method call produces: a return value or an exception
Return(v) == [exc |-> "", value |-> v]

Raise(e) == [exc |-> e, value |-> <<>>]

ExcOf(o) == IF o = "client_error" THEN "ClientError" ELSE "EndpointConnectionError"

\* [f(x) for x in seq]
Map(seq, f(_)) == [n \in 1..Len(seq) |-> f(seq[n])]

-----------------------------------------------------------------------------
(* Boto3AWSClient: listing methods                                         *)
(* (src/src/adapters/outbound/boto3_aws_client.py)                         *)
(* `o` is the outcome of the method's listing API call. A listing is one   *)
(* page, so a ClientError leaves the method with an empty list.            *)

get_caller_identity(o) ==
    IF o # "ok" THEN Raise(ExcOf(o))
    ELSE Return([account |-> cloud.account])

_list_albs(region, o) ==
    IF o = "other_error" THEN Raise(ExcOf(o))
    ELSE IF o = "client_error" THEN Return(<<>>)
    ELSE LET IsApplication(lb) == lb.Type = "application"
             Build(lb) == Resource(lb.LoadBalancerArn, ALB, region,
                                   Split(lb.LoadBalancerArn, ":")[5],
                                   Some(lb.LoadBalancerName),
                                   lb.Scheme = "internet-facing", None)
         IN  Return(Map(SelectSeq(cloud.load_balancers[region], IsApplication), Build))

\* WebACL of a distribution as _list_cloudfront_distributions parses it
DistributionWebACL(web_acl_id) ==
    LET parts == Split(web_acl_id, "/")
    IN  IF web_acl_id # "" /\ Len(parts) >= 3
        THEN Some(WebACL(web_acl_id, SecondLast(parts), Last(parts),
                         "CLOUDFRONT", "us-east-1"))
        ELSE None

\* od[n] is the outcome of get_distribution for the n-th distribution
_list_cloudfront_distributions(region, o, od) ==
    IF o = "other_error" THEN Raise(ExcOf(o))
    ELSE IF o = "client_error" THEN Return(<<>>)
    ELSE IF \E n \in 1..Len(cloud.distributions) : od[n] = "other_error"
    THEN Raise(ExcOf("other_error"))
    ELSE LET Build(n) ==
                LET dist == cloud.distributions[n]
                IN  Resource(dist.ARN, CLOUDFRONT, "global",
                             Split(dist.ARN, ":")[5], Some(dist.DomainName), TRUE,
                             IF od[n] = "ok" THEN DistributionWebACL(dist.WebACLId)
                             ELSE None)
         IN  Return([n \in 1..Len(cloud.distributions) |-> Build(n)])

_list_api_gateway_rest_apis(region, o) ==
    IF o = "other_error" THEN Raise(ExcOf(o))
    ELSE IF o = "client_error" THEN Return(<<>>)
    ELSE LET Build(api) ==
                Resource("arn:aws:apigateway:" \o region \o "::/restapis/" \o api.id,
                         API_GATEWAY_REST, region, cloud.account,
                         Some(api.name), TRUE, None)
         IN  Return(Map(cloud.rest_apis[region], Build))

_list_api_gateway_http_apis(region, o) ==
    IF o = "other_error" THEN Raise(ExcOf(o))
    ELSE IF o = "client_error" THEN Return(<<>>)
    ELSE LET Build(api) ==
                Resource("arn:aws:apigateway:" \o region \o "::/apis/" \o api.ApiId,
                         API_GATEWAY_HTTP, region, cloud.account,
                         Some(api.Name), TRUE, None)
         IN  Return(Map(cloud.http_apis[region], Build))

_list_appsync_apis(region, o) ==
    IF o = "other_error" THEN Raise(ExcOf(o))
    ELSE IF o = "client_error" THEN Return(<<>>)
    ELSE LET Build(api) == Resource(api.arn, APPSYNC, region,
                                    Split(api.arn, ":")[5], Some(api.name), TRUE, None)
         IN  Return(Map(cloud.graphql_apis[region], Build))

_list_cognito_user_pools(region, o) ==
    IF o = "other_error" THEN Raise(ExcOf(o))
    ELSE IF o = "client_error" THEN Return(<<>>)
    ELSE LET Build(pool) ==
                Resource("arn:aws:cognito-idp:" \o region \o ":" \o cloud.account
                            \o ":userpool/" \o pool.Id,
                         COGNITO, region, cloud.account, Some(pool.Name), TRUE, None)
         IN  Return(Map(cloud.user_pools[region], Build))

_list_app_runner_services(region, o) ==
    IF o = "other_error" THEN Raise(ExcOf(o))
    ELSE IF o = "client_error" THEN Return(<<>>)
    ELSE LET Build(svc) == Resource(svc.ServiceArn, APP_RUNNER, region,
                                    Split(svc.ServiceArn, ":")[5],
                                    Some(svc.ServiceName), TRUE, None)
         IN  Return(Map(cloud.services[region], Build))

_list_verified_access_instances(region, o) ==
    IF o = "other_error" THEN Raise(ExcOf(o))
    ELSE IF o = "client_error" THEN Return(<<>>)
    ELSE LET Build(inst) ==
                Resource("arn:aws:ec2:" \o region \o ":" \o cloud.account
                            \o ":verified-access-instance/" \o inst.VerifiedAccessInstanceId,
                         VERIFIED_ACCESS, region, cloud.account, inst.Name, TRUE, None)
         IN  Return(Map(cloud.verified_access_instances[region], Build))

list_resources(resource_type, region, o, od) ==
    CASE resource_type = ALB -> _list_albs(region, o)
      [] resource_type = CLOUDFRONT -> _list_cloudfront_distributions(region, o, od)
      [] resource_type = API_GATEWAY_REST -> _list_api_gateway_rest_apis(region, o)
      [] resource_type = API_GATEWAY_HTTP -> _list_api_gateway_http_apis(region, o)
      [] resource_type = APPSYNC -> _list_appsync_apis(region, o)
      [] resource_type = COGNITO -> _list_cognito_user_pools(region, o)
      [] resource_type = APP_RUNNER -> _list_app_runner_services(region, o)
      [] resource_type = VERIFIED_ACCESS -> _list_verified_access_instances(region, o)
      [] OTHER -> Return(<<>>)

-----------------------------------------------------------------------------
(* Python dicts: functions with a finite domain of strings                 *)

EmptyDict == [x \in {} |-> x]

\* d[k] = v
Put(d, k, v) == [x \in (DOMAIN d) \cup {k} |-> IF x = k THEN v ELSE d[x]]

\* d.get(k, default)
Get(d, k, default) == IF k \in DOMAIN d THEN d[k] ELSE default

RECURSIVE Flatten(_)
Flatten(ss) == IF ss = <<>> THEN <<>> ELSE Head(ss) \o Flatten(Tail(ss))

-----------------------------------------------------------------------------
(* Boto3AWSClient: the association index                                   *)
(* cloud.web_acls[<<scope, region>>] is the answer of list_web_acls; each  *)
(* summary carries the answers of list_resources_for_web_acl: typed_arns   *)
(* (the six queries with a ResourceType, concatenated; a query's           *)
(* ClientError is an empty answer) and untyped_arns (the query without     *)
(* one, made for the CLOUDFRONT scope only).                               *)

_list_web_acls_with_resources(scope, region, o) ==
    IF o = "other_error" THEN Raise(ExcOf(o))
    ELSE IF o = "client_error" THEN Return(<<>>)
    ELSE LET Build(s) ==
                [acl |-> WebACL(s.ARN, s.Name, s.Id, scope, region),
                 all_arns |-> s.typed_arns \o
                              (IF scope = "CLOUDFRONT" THEN s.untyped_arns ELSE <<>>)]
             HasArns(t) == t.all_arns # <<>>
         IN  Return(SelectSeq(Map(cloud.web_acls[<<scope, region>>], Build), HasArns))

\* lines 378-380: the loop body for a policy of the global listing
InsertGlobal(m, acl, resource_arn) == Put(m, resource_arn, acl)

\* A plausible slip: a stage is stored under its own identifier only
InsertRegionalStageOnly(m, acl, resource_arn) == Put(m, resource_arn, acl)

\* A plausible slip: the API-level entry is overwritten by every stage
InsertRegionalLastWins(m, acl, resource_arn) ==
    IF Contains("/restapis/", resource_arn) /\ Contains("/stages/", resource_arn)
    THEN Put(Put(m, resource_arn, acl), Split(resource_arn, "/stages/")[1], acl)
    ELSE Put(m, resource_arn, acl)

\* A plausible slip: an identifier keeps the first policy listed for it
InsertRegionalFirstWins(m, acl, resource_arn) ==
    LET withOwn == IF resource_arn \in DOMAIN m THEN m ELSE Put(m, resource_arn, acl)
    IN  IF Contains("/restapis/", resource_arn) /\ Contains("/stages/", resource_arn)
        THEN LET api_arn == Split(resource_arn, "/stages/")[1]
             IN  IF api_arn \notin DOMAIN withOwn
                 THEN Put(withOwn, api_arn, acl)
                 ELSE withOwn
        ELSE withOwn

\* lines 387-399: the loop body for a policy of a regional listing
InsertRegional(m, acl, resource_arn) ==
    IF Contains("/restapis/", resource_arn) /\ Contains("/stages/", resource_arn)
    THEN LET api_arn == Split(resource_arn, "/stages/")[1]
             withStage == Put(m, resource_arn, acl)
         IN  IF api_arn \notin DOMAIN withStage
             THEN Put(withStage, api_arn, acl)
             ELSE withStage
    ELSE Put(m, resource_arn, acl)

Insert(m, item) ==
    IF item.scope = "CLOUDFRONT"
    THEN InsertGlobal(m, item.acl, item.resource_arn)
    ELSE InsertRegional(m, item.acl, item.resource_arn)

RECURSIVE InsertAll(_, _)
InsertAll(m, items) ==
    IF items = <<>> THEN m ELSE InsertAll(Insert(m, Head(items)), Tail(items))

\* the (acl, resource_arn) pairs of one listing, in the order of the loops
Pairs(scope, listing) ==
    LET OfAcl(t) == [n \in 1..Len(t.all_arns) |->
                        [scope |-> scope, acl |-> t.acl, resource_arn |-> t.all_arns[n]]]
    IN  Flatten(Map(listing, OfAcl))

\* A plausible slip: the global listing is asked of the first region scanned
WafListingCallsGlobalInFirstRegion(rs, og, orr) ==
    <<[scope |-> "CLOUDFRONT", region |-> IF rs = <<>> THEN "us-east-1" ELSE rs[1],
       o |-> og]>> \o
    [n \in 1..Len(rs) |-> [scope |-> "REGIONAL", region |-> rs[n], o |-> orr[n]]]

\* A plausible slip: the global listing is inside the loop over the regions
WafListingCallsGlobalPerRegion(rs, og, orr) ==
    Flatten([n \in 1..Len(rs) |->
                <<[scope |-> "CLOUDFRONT", region |-> "us-east-1", o |-> og],
                  [scope |-> "REGIONAL", region |-> rs[n], o |-> orr[n]]>>])

\* the listing calls of get_waf_associations_map, in order: the global
\* listing once, then one regional listing per region of the list;
\* og and orr[n] are their outcomes
WafListingCalls(rs, og, orr) ==
    <<[scope |-> "CLOUDFRONT", region |-> "us-east-1", o |-> og]>> \o
    [n \in 1..Len(rs) |-> [scope |-> "REGIONAL", region |-> rs[n], o |-> orr[n]]]

\* the index of the first call that raises, 0 when none does
FirstRaise(calls) ==
    IF \E n \in 1..Len(calls) : calls[n].o = "other_error"
    THEN CHOOSE n \in 1..Len(calls) :
            /\ calls[n].o = "other_error"
            /\ \A q \in 1..(n - 1) : calls[q].o # "other_error"
    ELSE 0

\* the insertions made before the method returns or raises
WafInsertions(rs, og, orr) ==
    LET calls == WafListingCalls(rs, og, orr)
        stop == FirstRaise(calls)
        done == IF stop = 0 THEN calls ELSE SubSeq(calls, 1, stop - 1)
        OfCall(c) == Pairs(c.scope,
                           _list_web_acls_with_resources(c.scope, c.region, c.o).value)
    IN  Flatten(Map(done, OfCall))

get_waf_associations_map(rs, og, orr) ==
    IF FirstRaise(WafListingCalls(rs, og, orr)) # 0
    THEN Raise(ExcOf("other_error"))
    ELSE Return(InsertAll(EmptyDict, WafInsertions(rs, og, orr)))

-----------------------------------------------------------------------------
(* Boto3AWSClient: the origin index and the hostname of a resource         *)

\* A plausible slip: the global keyword is looked for anywhere in the identifier
_parse_waf_arn_global_anywhere(waf_arn) ==
    LET parts == Split(waf_arn, "/")
        fields == Split(waf_arn, ":")
    IN  IF Len(parts) >= 3
        THEN IF Len(fields) < 6
             THEN None
             ELSE Some(WebACL(waf_arn, SecondLast(parts), Last(parts),
                              IF Contains("global", waf_arn)
                              THEN "CLOUDFRONT" ELSE "REGIONAL",
                              fields[4]))
        ELSE None

_parse_waf_arn(waf_arn) ==
    LET parts == Split(waf_arn, "/")
        fields == Split(waf_arn, ":")
    IN  IF Len(parts) >= 3
        THEN IF Len(fields) < 6
             THEN None      \* IndexError, caught
             ELSE Some(WebACL(waf_arn, SecondLast(parts), Last(parts),
                              IF StartsWith(fields[6], "global")
                              THEN "CLOUDFRONT" ELSE "REGIONAL",
                              fields[4]))
        ELSE None

\* A plausible slip: only the dotted form of the storage pattern is skipped
IsS3OriginDottedOnly(domain) == Contains(".s3.", domain)

\* line 621
IsS3Origin(domain) == Contains(".s3.", domain) \/ Contains(".s3-", domain)

\* A plausible slip: a hostname keeps the entry of the last distribution only
AddOriginsOverwriting(m, domains, entry) ==
    LET kept == SelectSeq(domains, LAMBDA d : ~IsS3Origin(d))
    IN  [k \in DOMAIN m \cup {kept[n] : n \in 1..Len(kept)} |->
            IF \E n \in 1..Len(kept) : kept[n] = k THEN <<entry>> ELSE m[k]]

\* lines 617-632: the origins of one distribution
RECURSIVE AddOrigins(_, _, _)
AddOrigins(m, domains, entry) ==
    IF domains = <<>> THEN m
    ELSE LET domain == Head(domains)
         IN  IF IsS3Origin(domain)
             THEN AddOrigins(m, Tail(domains), entry)
             ELSE AddOrigins(Put(m, domain, Get(m, domain, <<>>) \o <<entry>>),
                             Tail(domains), entry)

\* lines 600-635: one distribution; o is the outcome of get_distribution
AddDistribution(m, dist, account_id, o) ==
    IF o = "client_error" THEN m
    ELSE LET web_acl == IF dist.WebACLId # "" THEN _parse_waf_arn(dist.WebACLId)
                        ELSE None
             entry == [cloudfront_arn |-> "arn:aws:cloudfront::" \o account_id
                                            \o ":distribution/" \o dist.Id,
                       cloudfront_id |-> dist.Id,
                       cloudfront_domain |-> dist.DomainName,
                       web_acl |-> web_acl]
         IN  AddOrigins(m, dist.Origins, entry)

RECURSIVE AddDistributions(_, _, _, _)
AddDistributions(m, dists, account_id, od) ==
    IF dists = <<>> THEN m
    ELSE AddDistributions(AddDistribution(m, Head(dists), account_id, Head(od)),
                          Tail(dists), account_id, Tail(od))

\* oi: get_caller_identity, ol: list_distributions, od[n]: get_distribution
get_cloudfront_origins_map(oi, ol, od) ==
    IF oi # "ok" THEN Raise(ExcOf(oi))
    ELSE IF ol = "other_error" THEN Raise(ExcOf(ol))
    ELSE IF ol = "client_error" THEN Return(EmptyDict)
    ELSE IF \E n \in 1..Len(cloud.distributions) : od[n] = "other_error"
    THEN Raise(ExcOf("other_error"))
    ELSE Return(AddDistributions(EmptyDict, cloud.distributions, cloud.account, od))

\* o is the outcome of describe_load_balancers
_get_alb_dns_name(alb_arn, region, o) ==
    IF o = "other_error" THEN Raise(ExcOf(o))
    ELSE IF o = "client_error" THEN Return(None)
    ELSE LET IsIt(lb) == lb.LoadBalancerArn = alb_arn
             found == SelectSeq(cloud.load_balancers[region], IsIt)
         IN  IF found # <<>> THEN Return(Some(found[1].DNSName)) ELSE Return(None)

\* A plausible slip: the REST branch cuts the identifier at '/apis/'
match_resource_to_origin_one_marker(r, o) ==
    IF r.resource_type \in {API_GATEWAY_HTTP, API_GATEWAY_REST}
    THEN Return(Some(Last(Split(r.arn, "/apis/")) \o ".execute-api." \o r.region
                     \o ".amazonaws.com"))
    ELSE IF r.resource_type = ALB
    THEN _get_alb_dns_name(r.arn, r.region, o)
    ELSE Return(None)

match_resource_to_origin(r, o) ==
    IF r.resource_type = API_GATEWAY_HTTP
    THEN Return(Some(Last(Split(r.arn, "/apis/")) \o ".execute-api." \o r.region
                     \o ".amazonaws.com"))
    ELSE IF r.resource_type = API_GATEWAY_REST
    THEN Return(Some(Last(Split(r.arn, "/restapis/")) \o ".execute-api." \o r.region
                     \o ".amazonaws.com"))
    ELSE IF r.resource_type = ALB
    THEN _get_alb_dns_name(r.arn, r.region, o)
    ELSE Return(None)

-----------------------------------------------------------------------------
(* ScanResult (src/src/domain/entities/scan_result.py)                     *)

ScanResult(account_id, regions_scanned) ==
    [account_id |-> account_id, regions_scanned |-> regions_scanned,
     scan_completed_at |-> None, resources |-> <<>>, errors |-> <<>>]

add_resource(sr, r) ==
    [sr EXCEPT !.resources = @ \o <<[r EXCEPT !.scanned_at = Some("utcnow")]>>]

add_error(sr, region, error_message, resource_type) ==
    [sr EXCEPT !.errors = @ \o <<[region |-> region, resource_type |-> resource_type,
                                  message |-> error_message, timestamp |-> "utcnow"]>>]

complete(sr) == [sr EXCEPT !.scan_completed_at = Some("utcnow")]

\* a float result, kept as the exact fraction num/den (den > 0); the
\* rounding of the float division is not modelled
Ratio(num, den) == [num |-> num, den |-> den]

total_resources(sr) == Len(sr.resources)

\* A plausible slip: a resource behind a protected distribution is counted
\* with the directly protected ones
resources_with_any_waf(sr) ==
    Cardinality({n \in 1..Len(sr.resources) :
                    has_waf(sr.resources[n]) \/ sr.resources[n].fronted_by_waf # None})

\* sum(1 for r in self.resources if r.has_waf())
resources_with_waf(sr) ==
    Cardinality({n \in 1..Len(sr.resources) : has_waf(sr.resources[n])})

\* A plausible slip: a resource behind a protected distribution is not counted
resources_without_any_waf(sr) ==
    Cardinality({n \in 1..Len(sr.resources) :
                    ~has_waf(sr.resources[n]) /\ sr.resources[n].fronted_by_waf = None})

resources_without_waf(sr) ==
    Cardinality({n \in 1..Len(sr.resources) : ~has_waf(sr.resources[n])})

compliant_resources(sr) ==
    Cardinality({n \in 1..Len(sr.resources) : is_compliant(sr.resources[n])})

non_compliant_resources(sr) ==
    Cardinality({n \in 1..Len(sr.resources) : ~is_compliant(sr.resources[n])})

\* A plausible slip: the empty scan is rated like the empty coverage
get_compliance_rate_zero_when_empty(sr) ==
    IF total_resources(sr) = 0 THEN Ratio(0, 1)
    ELSE Ratio(compliant_resources(sr) * 100, total_resources(sr))

get_compliance_rate(sr) ==
    IF total_resources(sr) = 0 THEN Ratio(100, 1)
    ELSE Ratio(compliant_resources(sr) * 100, total_resources(sr))

get_waf_coverage_rate(sr) ==
    IF total_resources(sr) = 0 THEN Ratio(0, 1)
    ELSE Ratio(resources_with_waf(sr) * 100, total_resources(sr))

\* the statistics of a ScanResult, read together
Statistics(sr) ==
    [total_resources |-> total_resources(sr),
     resources_with_waf |-> resources_with_waf(sr),
     resources_without_waf |-> resources_without_waf(sr),
     compliant_resources |-> compliant_resources(sr),
     non_compliant_resources |-> non_compliant_resources(sr),
     compliance_rate |-> get_compliance_rate(sr),
     waf_coverage_rate |-> get_waf_coverage_rate(sr)]

-----------------------------------------------------------------------------
(* ScannerService (src/src/application/scanner_service.py)                 *)

DEFAULT_REGIONS == <<"us-east-1">>

DEFAULT_RESOURCE_TYPES == <<ALB, CLOUDFRONT, API_GATEWAY_REST, API_GATEWAY_HTTP,
                            APPSYNC, COGNITO, APP_RUNNER, VERIFIED_ACCESS>>

\* A plausible slip: the check of the resource type is missing, so the index
\* overrides the policy of a distribution's own configuration
AttachDirectAnyType(r, wm) ==
    IF r.arn \in DOMAIN wm
    THEN [r EXCEPT !.web_acl = Some(wm[r.arn])]
    ELSE r

\* A plausible slip: a REST API is left out of the lookup, its stages being
\* what a policy is associated with
AttachDirectButRest(r, wm) ==
    IF r.resource_type \notin {CLOUDFRONT, API_GATEWAY_REST} /\ r.arn \in DOMAIN wm
    THEN [r EXCEPT !.web_acl = Some(wm[r.arn])]
    ELSE r

\* lines 175-180: the association step for one enumerated resource
AttachDirect(r, wm) ==
    IF r.resource_type # CLOUDFRONT /\ r.arn \in DOMAIN wm
    THEN [r EXCEPT !.web_acl = Some(wm[r.arn])]
    ELSE r

RECURSIVE AddResources(_, _, _)
AddResources(sr, rs, wm) ==
    IF rs = <<>> THEN sr
    ELSE AddResources(add_resource(sr, AttachDirect(Head(rs), wm)), Tail(rs), wm)

\* A plausible slip: the distributions are enumerated in every region
SkipsPairNever(resource_type, region) == FALSE

\* line 165: no call is made for CloudFront outside us-east-1
SkipsPair(resource_type, region) ==
    resource_type = CLOUDFRONT /\ region # "us-east-1"

\* A plausible slip: the failure of a pair is swallowed without a record
_scan_resource_type_unrecorded(sr, region, resource_type, wm, o, od) ==
    IF SkipsPair(resource_type, region) THEN sr
    ELSE LET res == list_resources(resource_type, region, o, od)
         IN  IF res.exc # "" THEN sr ELSE AddResources(sr, res.value, wm)

\* o, od: the outcomes of the API calls list_resources makes
_scan_resource_type(sr, region, resource_type, wm, o, od) ==
    IF SkipsPair(resource_type, region) THEN sr
    ELSE LET res == list_resources(resource_type, region, o, od)
         IN  IF res.exc # ""
             THEN add_error(sr, region, res.exc, resource_type)
             ELSE AddResources(sr, res.value, wm)

\* line 210
CanBeFronted(r) == r.resource_type \in {API_GATEWAY_HTTP, API_GATEWAY_REST, ALB}

\* lines 208-224: the propagator asks for the resource's hostname
AsksHostname(r) == CanBeFronted(r) /\ ~Truthy(r.web_acl)

\* A plausible slip: only the first distribution of the origin is looked at
FirstWithWafHeadOnly(cloudfront_dists) ==
    IF cloudfront_dists # <<>> /\ Truthy(cloudfront_dists[1].web_acl) THEN 1 ELSE 0

\* A plausible slip: the `break` of line 246 is missing, so the last one wins
LastWithWaf(cloudfront_dists) ==
    IF \E n \in 1..Len(cloudfront_dists) : Truthy(cloudfront_dists[n].web_acl)
    THEN CHOOSE n \in 1..Len(cloudfront_dists) :
            /\ Truthy(cloudfront_dists[n].web_acl)
            /\ \A q \in (n + 1)..Len(cloudfront_dists) : ~Truthy(cloudfront_dists[q].web_acl)
    ELSE 0

\* lines 232-246: the first distribution with a WAF, 0 when none has one
FirstWithWaf(cloudfront_dists) ==
    IF \E n \in 1..Len(cloudfront_dists) : Truthy(cloudfront_dists[n].web_acl)
    THEN CHOOSE n \in 1..Len(cloudfront_dists) :
            /\ Truthy(cloudfront_dists[n].web_acl)
            /\ \A q \in 1..(n - 1) : ~Truthy(cloudfront_dists[q].web_acl)
    ELSE 0


\* A plausible slip: the distribution's policy is stored as the resource's own
AttachFrontedByAsDirect(r, cloudfront_dists) ==
    LET n == FirstWithWaf(cloudfront_dists)
    IN  IF n = 0 THEN r
        ELSE LET cf_dist == cloudfront_dists[n]
             IN  [r EXCEPT
                    !.web_acl = cf_dist.web_acl,
                    !.fronted_by_resource_arn = Some(cf_dist.cloudfront_arn),
                    !.fronted_by_waf = cf_dist.web_acl,
                    !.fronted_by_notes = Some("Fronted by CloudFront Distribution")]

\* lines 226-246: attach the fronted-by fields from the origin's entries
AttachFrontedBy(r, cloudfront_dists) ==
    LET n == FirstWithWaf(cloudfront_dists)
    IN  IF n = 0 THEN r
        ELSE LET cf_dist == cloudfront_dists[n]
             IN  [r EXCEPT
                    !.fronted_by_resource_arn = Some(cf_dist.cloudfront_arn),
                    !.fronted_by_waf = cf_dist.web_acl,
                    !.fronted_by_notes =
                        Some("Fronted by CloudFront Distribution "
                             \o cf_dist.cloudfront_arn \o " with WAF "
                             \o cf_dist.web_acl[1].name)]

\* A plausible slip: the direct-WAF check of line 218 is missing
EnrichResourceIgnoringDirect(r, om, o) ==
    IF ~CanBeFronted(r) THEN Return(r)
    ELSE LET origin == match_resource_to_origin(r, o)
         IN  IF origin.exc # "" THEN Raise(origin.exc)
             ELSE IF ~TruthyStr(origin.value) THEN Return(r)
             ELSE Return(AttachFrontedBy(r, Get(om, origin.value[1], <<>>)))

\* lines 208-246: one iteration of the propagator's loop;
\* o is the outcome of the DNS-name lookup, made for a load balancer only
EnrichResource(r, om, o) ==
    IF ~CanBeFronted(r) THEN Return(r)
    ELSE IF Truthy(r.web_acl) THEN Return(r)
    ELSE LET origin == match_resource_to_origin(r, o)
         IN  IF origin.exc # "" THEN Raise(origin.exc)
             ELSE IF ~TruthyStr(origin.value) THEN Return(r)
             ELSE Return(AttachFrontedBy(r, Get(om, origin.value[1], <<>>)))

-----------------------------------------------------------------------------
(* The account the scan runs against                                       *)

MaxFailures == 2

Regions == {"us-east-1", "eu-west-1"}

Account == "111122223333"

AlbArn == "arn:aws:elasticloadbalancing:us-east-1:111122223333:loadbalancer/app/web/1a"

AlbDns == "web-1a.us-east-1.elb.amazonaws.com"

NlbArn == "arn:aws:elasticloadbalancing:us-east-1:111122223333:loadbalancer/net/tcp/2b"

RestApiArn == "arn:aws:apigateway:us-east-1::/restapis/abc"

StageProd == "arn:aws:apigateway:us-east-1::/restapis/abc/stages/prod"

StageDev == "arn:aws:apigateway:us-east-1::/restapis/abc/stages/dev"

HttpStage == "arn:aws:apigateway:us-east-1::/apis/h1/stages/prod"

AppSyncArn == "arn:aws:appsync:us-east-1:111122223333:apis/g1"

AppRunnerArn == "arn:aws:apprunner:us-east-1:111122223333:service/run/3c"

Dist1Arn == "arn:aws:cloudfront::111122223333:distribution/D1"

GlobalAcl1 == "arn:aws:wafv2:us-east-1:111122223333:global/webacl/edge/e1"

GlobalAcl2 == "arn:aws:wafv2:us-east-1:111122223333:global/webacl/front/f2"

AclSummary(arn, name, id, typed_arns, untyped_arns) ==
    [ARN |-> arn, Name |-> name, Id |-> id,
     typed_arns |-> typed_arns, untyped_arns |-> untyped_arns]

Policy1(typed_arns) ==
    AclSummary("arn:aws:wafv2:us-east-1:111122223333:regional/webacl/app/p1",
               "app", "p1", typed_arns, <<>>)

Policy2(typed_arns) ==
    AclSummary("arn:aws:wafv2:us-east-1:111122223333:regional/webacl/api/p2",
               "api", "p2", typed_arns, <<>>)

Policy3(typed_arns) ==
    AclSummary("arn:aws:wafv2:eu-west-1:111122223333:regional/webacl/eu/p3",
               "eu", "p3", typed_arns, <<>>)

GlobalPolicy(untyped_arns) == AclSummary(GlobalAcl1, "edge", "e1", <<>>, untyped_arns)

\* answers of list_web_acls: the global listing, us-east-1's, eu-west-1's
WebAcls(global, us, eu) ==
    [key \in {"CLOUDFRONT", "REGIONAL"} \X Regions |->
        IF key[1] = "CLOUDFRONT" THEN global
        ELSE IF key[2] = "us-east-1" THEN us ELSE eu]

Distribution(id, domain, web_acl_id, origins) ==
    [Id |-> id, ARN |-> "arn:aws:cloudfront::" \o Account \o ":distribution/" \o id,
     DomainName |-> domain, WebACLId |-> web_acl_id, Origins |-> origins]

InUsEast1(list) == [r \in Regions |-> IF r = "us-east-1" THEN list ELSE <<>>]

InEuWest1(list) == [r \in Regions |-> IF r = "eu-west-1" THEN list ELSE <<>>]

\* an account with one resource of each kind, two distributions in front of
\* the load balancer and of the gateways, and the given policies
Cloud(alb_scheme, web_acls, distributions) ==
    [account |-> Account,
     load_balancers |-> InUsEast1(<<
        [LoadBalancerArn |-> AlbArn, LoadBalancerName |-> "web",
         Type |-> "application", Scheme |-> alb_scheme, DNSName |-> AlbDns],
        [LoadBalancerArn |-> NlbArn, LoadBalancerName |-> "tcp",
         Type |-> "network", Scheme |-> "internet-facing",
         DNSName |-> "tcp-2b.elb.us-east-1.amazonaws.com"]>>),
     rest_apis |-> InUsEast1(<<[id |-> "abc", name |-> "orders"]>>),
     http_apis |-> InEuWest1(<<[ApiId |-> "h1", Name |-> "hooks"]>>),
     graphql_apis |-> InUsEast1(<<[arn |-> AppSyncArn, name |-> "graph"]>>),
     user_pools |-> InEuWest1(<<[Id |-> "eu-west-1_u1", Name |-> "users"]>>),
     services |-> InUsEast1(<<[ServiceArn |-> AppRunnerArn, ServiceName |-> "run"]>>),
     verified_access_instances |->
        InEuWest1(<<[VerifiedAccessInstanceId |-> "vai-1", Name |-> None]>>),
     distributions |-> distributions,
     web_acls |-> web_acls]

\* what Policy1 and Policy2 protect in the scanned account
ScanPolicyArns ==
    {<< <<>>, <<>> >>,
     << <<AlbArn>>, <<>> >>,
     << <<StageProd>>, <<StageDev>> >>,
     << <<StageDev, AppSyncArn>>, <<AlbArn>> >>}

\* the WebACLId of a distribution's configuration: none, well-formed, malformed
ScanWebAclIds == {"", GlobalAcl2, "not-an-arn"}

ScanClouds ==
    {Cloud(scheme,
           WebAcls(<<GlobalPolicy(<<Dist1Arn>>)>>,
                   <<Policy1(arns[1]), Policy2(arns[2])>>,
                   <<Policy3(<<>>)>>),
           <<Distribution("D1", "d1.cloudfront.net", acl1,
                          <<AlbDns, "assets.s3.amazonaws.com",
                            "h1.execute-api.eu-west-1.amazonaws.com">>),
             Distribution("D2", "d2.cloudfront.net", acl2,
                          <<"abc.execute-api.us-east-1.amazonaws.com", AlbDns>>)>>) :
        scheme \in {"internet-facing", "internal"},
        arns \in ScanPolicyArns,
        acl1 \in {"", GlobalAcl1},
        acl2 \in ScanWebAclIds}

\* the accounts and region lists of the scans with failing API calls
FaultClouds ==
    {Cloud("internet-facing",
           WebAcls(<<GlobalPolicy(<<Dist1Arn>>)>>,
                   <<Policy1(arns), Policy2(<<>>)>>,
                   <<Policy3(<<>>)>>),
           <<Distribution("D1", "d1.cloudfront.net", GlobalAcl1,
                          <<AlbDns, "assets.s3.amazonaws.com">>)>>) :
        arns \in {<<>>, <<AlbArn>>}}

FaultRegionLists == {<<"us-east-1">>, <<"eu-west-1">>, <<"eu-west-1", "us-east-1">>}

ScanRegionLists == {<<>>, <<"us-east-1">>, <<"eu-west-1">>, <<"eu-west-1", "us-east-1">>}

ScanTypeLists == {<<>>, <<API_GATEWAY_REST, ALB>>}

-----------------------------------------------------------------------------
(* Injected API failures: at most MaxFailures calls of a run fail          *)

NonOk(os) == Cardinality({n \in 1..Len(os) : os[n] # "ok"})

BudgetLeft == budget - Len(api_log)

\* the outcomes of n calls, within the budget
OutcomeSeqs(n) == {os \in [1..n -> ApiOutcome] : NonOk(os) <= BudgetLeft}

\* the calls after the n-th are not made
Unmade(os, n) == \A q \in (n + 1)..Len(os) : os[q] = "ok"

\* get_waf_associations_map: the global listing and nr regional listings; a
\* listing that raises ends the method
WafOutcomes(nr) ==
    {os \in OutcomeSeqs(1 + nr) :
        \A n \in 1..Len(os) : os[n] = "other_error" => Unmade(os, n)}

\* list_resources: the listing call, then get_distribution per distribution
\* (CloudFront only); a failed listing or a call that raises ends the method
ListingOutcomes(nd) ==
    {os \in OutcomeSeqs(1 + nd) :
        \A n \in 1..Len(os) :
            ((n = 1 /\ os[n] # "ok") \/ os[n] = "other_error") => Unmade(os, n)}

\* get_cloudfront_origins_map: get_caller_identity, list_distributions, then
\* get_distribution per distribution
OriginsOutcomes(nd) ==
    {os \in OutcomeSeqs(2 + nd) :
        \A n \in 1..Len(os) :
            ((n <= 2 /\ os[n] # "ok") \/ os[n] = "other_error") => Unmade(os, n)}

\* an API call on one object (target: the Id of a distribution) and its outcome
ApiCallOn(op, region, resource_type, target, o) ==
    [op |-> op, region |-> region, resource_type |-> resource_type,
     target |-> target, kind |-> o]

ApiCall(op, region, resource_type, o) == ApiCallOn(op, region, resource_type, "", o)

\* the API calls of get_cloudfront_origins_map with their outcomes os
OriginsCalls(os) ==
    [n \in 1..Len(os) |->
        IF n = 1 THEN ApiCall("get_caller_identity", "us-east-1", "", os[n])
        ELSE IF n = 2 THEN ApiCall("list_distributions", "us-east-1", "", os[n])
        ELSE ApiCallOn("get_distribution", "us-east-1", "",
                       cloud.distributions[n - 2].Id, os[n])]

\* a call made on the AWS client: a method of the port, or a listing of
\* policies inside get_waf_associations_map (what: its scope)
Called(op, region, what) == [op |-> op, region |-> region, what |-> what]

\* the listings of policies get_waf_associations_map makes, up to and
\* including the first that raises
WafListingsMade(rs, og, orr) ==
    LET calls == WafListingCalls(rs, og, orr)
        stop == FirstRaise(calls)
        made == IF stop = 0 THEN calls ELSE SubSeq(calls, 1, stop)
    IN  [n \in 1..Len(made) |->
            Called("_list_web_acls_with_resources", made[n].region, made[n].scope)]

\* the failed calls among `calls`, appended to the log
Logged(calls) ==
    LET Failed(c) == c.kind # "ok"
    IN  api_log \o SelectSeq(calls, Failed)

-----------------------------------------------------------------------------
(* ScannerService.scan, step by step                                       *)

\* the Lambda handler is not running
NoInvocation ==
    [TARGET_ACCOUNTS |-> "", target_accounts |-> <<>>, account |-> 0,
     all_results |-> <<>>, errors |-> <<>>, response |-> None]

NoResource == Resource("", ALB, "", "", None, FALSE, None)

ScanVarsIdle ==
    /\ resource = NoResource
    /\ ret = None
    /\ associations_map = EmptyDict
    /\ work = <<>>
    /\ wi = 0
    /\ parse_arg = ""
    /\ invocation = NoInvocation

\* a scan is about to be called
ScanCalled ==
    /\ pc = "start"
    /\ waf_map = EmptyDict
    /\ origins_map = EmptyDict
    /\ scan_result = ScanResult("", <<>>)
    /\ ri = 1 /\ ti = 1 /\ ei = 1
    /\ api_log = <<>>
    /\ call_log = <<>>
    /\ raised = ""
    /\ ScanVarsIdle

\* lines 84-101: defaults, the caller's identity, the empty ScanResult
ScanStart ==
    /\ pc = "start"
    /\ \E os \in OutcomeSeqs(1) :
        LET identity == get_caller_identity(os[1])
            rs == IF regions = <<>> THEN DEFAULT_REGIONS ELSE regions
            ts == IF resource_types = <<>> THEN DEFAULT_RESOURCE_TYPES ELSE resource_types
        IN  /\ call_log' = call_log \o <<Called("get_caller_identity", "", "")>>
            /\ api_log' = Logged(<<ApiCall("get_caller_identity", "us-east-1", "", os[1])>>)
            /\ regions' = rs
            /\ resource_types' = ts
            /\ IF identity.exc # ""
               THEN /\ pc' = "raised"
                    /\ raised' = identity.exc
                    /\ UNCHANGED scan_result
               ELSE /\ pc' = "waf_map"
                    /\ raised' = raised
                    /\ scan_result' = ScanResult(identity.value.account, rs)
    /\ UNCHANGED <<notScan, scanEnv, waf_map, origins_map, ri, ti, ei>>

\* lines 103-108
ScanBuildWafMap ==
    /\ pc = "waf_map"
    /\ IF include_waf_lookup
       THEN \E os \in WafOutcomes(Len(regions)) :
              LET built == get_waf_associations_map(regions, Head(os), Tail(os))
              IN  /\ call_log' = call_log \o <<Called("get_waf_associations_map", "", "")>>
                                \o WafListingsMade(regions, Head(os), Tail(os))
                  /\ api_log' = Logged(
                        [n \in 1..Len(os) |->
                            ApiCall("list_web_acls",
                                    WafListingCalls(regions, Head(os), Tail(os))[n].region,
                                    WafListingCalls(regions, Head(os), Tail(os))[n].scope,
                                    os[n])])
                  /\ IF built.exc # ""
                     THEN /\ pc' = "raised" /\ raised' = built.exc
                          /\ UNCHANGED waf_map
                     ELSE /\ pc' = "scan" /\ raised' = raised
                          /\ waf_map' = built.value
       ELSE /\ pc' = "scan"
            /\ UNCHANGED <<waf_map, api_log, call_log, raised>>
    /\ UNCHANGED <<notScan, scanEnv, regions, resource_types, origins_map,
                   scan_result, ri, ti, ei>>

\* A plausible slip: complete() is called right after the enumeration
AfterScanLoopCompletes == "complete"

\* A plausible slip: the fronted-by detection runs whatever the flag says
AfterScanLoopDetects == "origins"

\* where scan() goes once the last (region, type) pair is done
AfterScanLoop == IF include_waf_lookup THEN "origins" ELSE "complete"

\* lines 111-117, 148-154: one (region, resource type) pair of the loops
ScanResourceType ==
    /\ pc = "scan"
    /\ LET region == regions[ri]
           resource_type == resource_types[ti]
           nd == IF resource_type = CLOUDFRONT THEN Len(cloud.distributions) ELSE 0
       IN  \E os \in (IF SkipsPair(resource_type, region)
                      THEN {[n \in 1..(1 + nd) |-> "ok"]}
                      ELSE ListingOutcomes(nd)) :
              /\ scan_result' = _scan_resource_type(scan_result, region, resource_type,
                                                    waf_map, Head(os), Tail(os))
              /\ call_log' = IF SkipsPair(resource_type, region) THEN call_log
                             ELSE call_log \o <<Called("list_resources", region,
                                                        resource_type)>>
              /\ api_log' = Logged(
                    [n \in 1..Len(os) |->
                        ApiCall(IF n = 1 THEN "list_resources" ELSE "get_distribution",
                                region, resource_type, os[n])])
    /\ IF ti < Len(resource_types)
       THEN /\ ti' = ti + 1 /\ UNCHANGED <<ri, pc>>
       ELSE IF ri < Len(regions)
       THEN /\ ti' = 1 /\ ri' = ri + 1 /\ UNCHANGED pc
       ELSE /\ pc' = AfterScanLoop /\ UNCHANGED <<ri, ti>>
    /\ UNCHANGED <<notScan, scanEnv, regions, resource_types, waf_map, origins_map,
                   ei, raised>>

\* lines 120-122
ScanBuildOrigins ==
    /\ pc = "origins"
    /\ \E os \in OriginsOutcomes(Len(cloud.distributions)) :
        LET built == get_cloudfront_origins_map(os[1], os[2], Tail(Tail(os)))
        IN  /\ call_log' = call_log \o <<Called("get_cloudfront_origins_map", "", "")>>
            /\ api_log' = Logged(OriginsCalls(os))
            /\ IF built.exc # ""
               THEN /\ pc' = "raised" /\ raised' = built.exc
                    /\ UNCHANGED origins_map
               ELSE /\ raised' = raised
                    /\ origins_map' = built.value
                    /\ pc' = IF scan_result.resources = <<>> THEN "complete" ELSE "enrich"
    /\ UNCHANGED <<notScan, scanEnv, regions, resource_types, waf_map,
                   scan_result, ri, ti, ei>>

\* lines 208-246: one resource of the propagator's loop
ScanEnrich ==
    /\ pc = "enrich"
    /\ LET r == scan_result.resources[ei]
       IN  \E os \in (IF AsksHostname(r) /\ r.resource_type = ALB
                      THEN OutcomeSeqs(1) ELSE {<<"ok">>}) :
              LET enriched == EnrichResource(r, origins_map, os[1])
              IN  /\ call_log' = IF AsksHostname(r)
                                 THEN call_log \o <<Called("match_resource_to_origin",
                                                            r.region, r.resource_type)>>
                                 ELSE call_log
                  /\ api_log' = Logged(<<ApiCall("describe_load_balancers", r.region,
                                                 r.resource_type, os[1])>>)
                  /\ IF enriched.exc # ""
                     THEN /\ pc' = "raised" /\ raised' = enriched.exc
                          /\ UNCHANGED <<scan_result, ei>>
                     ELSE /\ raised' = raised
                          /\ scan_result' =
                                [scan_result EXCEPT !.resources[ei] = enriched.value]
                          /\ IF ei < Len(scan_result.resources)
                             THEN ei' = ei + 1 /\ UNCHANGED pc
                             ELSE pc' = "complete" /\ UNCHANGED ei
    /\ UNCHANGED <<notScan, scanEnv, regions, resource_types, waf_map, origins_map,
                   ri, ti>>

\* lines 125-136
ScanComplete ==
    /\ pc = "complete"
    /\ scan_result' = complete(scan_result)
    /\ pc' = "done"
    /\ UNCHANGED <<notScan, scanEnv, regions, resource_types, waf_map, origins_map,
                   ri, ti, ei, api_log, call_log, raised>>

\* scans of every account of ScanClouds, with every API call answering
Init ==
    /\ ScanCalled
    /\ regions \in ScanRegionLists
    /\ resource_types \in ScanTypeLists
    /\ include_waf_lookup \in BOOLEAN
    /\ cloud \in ScanClouds
    /\ budget = 0

\* scans in which up to MaxFailures API calls fail
FaultInit ==
    /\ ScanCalled
    /\ regions \in FaultRegionLists
    /\ resource_types = <<>>
    /\ include_waf_lookup \in BOOLEAN
    /\ cloud \in FaultClouds
    /\ budget = MaxFailures

Next ==
    \/ ScanStart
    \/ ScanBuildWafMap
    \/ ScanResourceType
    \/ ScanBuildOrigins
    \/ ScanEnrich
    \/ ScanComplete

Spec == Init /\ [][Next]_vars

SpecFaults == FaultInit /\ [][Next]_vars

-----------------------------------------------------------------------------
(* Resource.get_compliance_status and Resource.is_compliant on their own   *)

SomeAcl == WebACL(GlobalAcl1, "edge", "e1", "CLOUDFRONT", "us-east-1")

OtherAcl == WebACL(GlobalAcl2, "front", "f2", "CLOUDFRONT", "us-east-1")

\* every Resource that differs in a field the two methods could read
Resources ==
    {[Resource(AlbArn, t, "us-east-1", Account, None, p, w) EXCEPT
            !.fronted_by_waf = fw, !.fronted_by_resource_arn = fa] :
        t \in ResourceType, p \in BOOLEAN, w \in {None, Some(SomeAcl)},
        fw \in {None, Some(OtherAcl)}, fa \in {None, Some(Dist1Arn)}}

\* the variables of the scan, for the operations that are not the scan
ScanIdle ==
    /\ resource_types = <<>>
    /\ include_waf_lookup = FALSE
    /\ waf_map = EmptyDict
    /\ scan_result = ScanResult("", <<>>)
    /\ ri = 1 /\ ti = 1 /\ ei = 1
    /\ api_log = <<>>
    /\ call_log = <<>>
    /\ raised = ""
    /\ parse_arg = ""
    /\ invocation = NoInvocation

NoCloud == Cloud("internal", WebAcls(<<>>, <<>>, <<>>), <<>>)

ResourceInit ==
    /\ pc = "evaluate"
    /\ resource \in Resources
    /\ ret = None
    /\ regions = <<>>
    /\ cloud = NoCloud
    /\ origins_map = EmptyDict
    /\ associations_map = EmptyDict
    /\ work = <<>>
    /\ wi = 0
    /\ budget = 0
    /\ ScanIdle

\* A plausible slip: the evaluator keeps its verdict on the resource
EvaluateNoting ==
    /\ pc \in {"evaluate", "returned"}
    /\ ret' = Some([status |-> get_compliance_status(resource),
                    compliant |-> is_compliant(resource)])
    /\ resource' = [resource EXCEPT
                        !.fronted_by_notes = Some(get_compliance_status(resource))]
    /\ pc' = IF pc = "evaluate" THEN "returned" ELSE "returned_again"
    /\ UNCHANGED <<regions, resource_types, include_waf_lookup, cloud,
                   waf_map, origins_map, scan_result, ri, ti, ei, associations_map,
                   work, wi, api_log, call_log, budget, raised, parse_arg,
                   invocation>>

\* both methods are called on the resource, a first and a second time;
\* neither assigns a field
Evaluate ==
    /\ pc \in {"evaluate", "returned"}
    /\ ret' = Some([status |-> get_compliance_status(resource),
                    compliant |-> is_compliant(resource)])
    /\ pc' = IF pc = "evaluate" THEN "returned" ELSE "returned_again"
    /\ UNCHANGED <<resource, regions, resource_types, include_waf_lookup, cloud,
                   waf_map, origins_map, scan_result, ri, ti, ei, associations_map,
                   work, wi, api_log, call_log, budget, raised, parse_arg,
                   invocation>>

SpecResource == ResourceInit /\ [][Evaluate]_vars

-----------------------------------------------------------------------------
(* ScanResult: resources added and enriched, statistics read               *)

MaxResources == 3

\* resources as a listing method hands them to the association step
StatResources ==
    {Resource(AlbArn, t, "us-east-1", Account, None, p, None) :
        t \in {ALB, API_GATEWAY_REST, COGNITO}, p \in BOOLEAN}

\* association indexes with and without a policy for the resources
StatWafMaps == {EmptyDict, Put(EmptyDict, AlbArn, SomeAcl)}

\* the entries of an origin fronted by a protected distribution
StatFronting ==
    <<[cloudfront_arn |-> Dist1Arn, cloudfront_id |-> "D1",
       cloudfront_domain |-> "d1.cloudfront.net", web_acl |-> Some(OtherAcl)]>>

StatsInit ==
    /\ pc = "stats"
    /\ resource = NoResource
    /\ cloud = NoCloud
    /\ ret = None
    /\ regions = <<>>
    /\ origins_map = EmptyDict
    /\ associations_map = EmptyDict
    /\ work = <<>>
    /\ wi = 0
    /\ budget = 0
    /\ ScanIdle

statsFrame == <<pc, resource, regions, resource_types, include_waf_lookup, cloud,
                waf_map, origins_map, ri, ti, ei, associations_map, work, wi,
                api_log, call_log, budget, raised, parse_arg,
                   invocation>>

\* scanner_service.py lines 175-180: association step, then add_resource;
\* nothing is stored for the statistics
StatsAdd ==
    /\ Len(scan_result.resources) < MaxResources
    /\ \E r \in StatResources, wm \in StatWafMaps :
          scan_result' = add_resource(scan_result, AttachDirect(r, wm))
    /\ ret' = None
    /\ UNCHANGED statsFrame

\* scanner_service.py lines 208-246: the propagator attaches the fronted-by
\* fields to a resource of the list
StatsAttachFrontedBy ==
    /\ \E n \in 1..Len(scan_result.resources) :
          LET r == scan_result.resources[n]
          IN  /\ AsksHostname(r)
              /\ r.fronted_by_waf = None
              /\ scan_result' = [scan_result EXCEPT
                                    !.resources[n] = AttachFrontedBy(r, StatFronting)]
    /\ ret' = None
    /\ UNCHANGED statsFrame

\* scan_result.py lines 47-82: the statistics are read
StatsRead ==
    /\ ret = None
    /\ ret' = Some(Statistics(scan_result))
    /\ UNCHANGED <<scan_result, statsFrame>>

StatsNext == StatsAdd \/ StatsAttachFrontedBy \/ StatsRead

SpecStats == StatsInit /\ [][StatsNext]_vars

-----------------------------------------------------------------------------
(* Boto3AWSClient.match_resource_to_origin on one resource                 *)

ApiIds == {"abc", "h1", "o5yl95v1g1", "apis"}

HttpApiArn(region, id) == "arn:aws:apigateway:" \o region \o "::/apis/" \o id

RestApiArnOf(region, id) == "arn:aws:apigateway:" \o region \o "::/restapis/" \o id

\* a load balancer that was listed and is gone when its DNS name is asked
GoneAlbArn == "arn:aws:elasticloadbalancing:us-east-1:111122223333:loadbalancer/app/old/9z"

\* resources as the listing methods build them, with and without a policy
HostnameResources ==
    {Resource(x.arn, x.resource_type, x.region, Account, None, TRUE, w) :
        w \in {None, Some(SomeAcl)},
        x \in {[arn |-> HttpApiArn(region, id), resource_type |-> API_GATEWAY_HTTP,
                region |-> region] : region \in Regions, id \in ApiIds}
           \cup {[arn |-> RestApiArnOf(region, id), resource_type |-> API_GATEWAY_REST,
                   region |-> region] : region \in Regions, id \in ApiIds}
           \cup {[arn |-> arn, resource_type |-> ALB, region |-> region] :
                    region \in Regions, arn \in {AlbArn, NlbArn, GoneAlbArn}}
           \cup {[arn |-> arn, resource_type |-> t, region |-> "us-east-1"] :
                    t \in {CLOUDFRONT, APPSYNC, COGNITO, APP_RUNNER, VERIFIED_ACCESS},
                    arn \in {AppSyncArn, HttpApiArn("us-east-1", "h1")}}}

HostnameInit ==
    /\ pc = "derive"
    /\ resource \in HostnameResources
    /\ cloud = Cloud("internet-facing", WebAcls(<<>>, <<>>, <<>>), <<>>)
    /\ ret = None
    /\ regions = <<>>
    /\ origins_map = EmptyDict
    /\ associations_map = EmptyDict
    /\ work = <<>>
    /\ wi = 0
    /\ budget = MaxFailures
    /\ ScanIdle

\* lines 657-671; describe_load_balancers is called for a load balancer only
Derive ==
    /\ pc = "derive"
    /\ \E os \in (IF resource.resource_type = ALB THEN OutcomeSeqs(1) ELSE {<<"ok">>}) :
        LET derived == match_resource_to_origin(resource, os[1])
        IN  /\ call_log' = call_log \o <<Called("match_resource_to_origin",
                                            resource.region, resource.resource_type)>>
            /\ api_log' = Logged(<<ApiCall("describe_load_balancers", resource.region,
                                           resource.resource_type, os[1])>>)
            /\ IF derived.exc # ""
               THEN /\ pc' = "raised" /\ raised' = derived.exc /\ UNCHANGED ret
               ELSE /\ pc' = "returned" /\ raised' = raised
                    /\ ret' = Some(derived.value)
    /\ UNCHANGED <<resource, regions, resource_types, include_waf_lookup, cloud,
                   waf_map, origins_map, scan_result, ri, ti, ei, associations_map,
                   work, wi, budget, parse_arg,
                   invocation>>

SpecHostname == HostnameInit /\ [][Derive]_vars

-----------------------------------------------------------------------------
(* Boto3AWSClient._parse_waf_arn on one identifier                         *)

\* what precedes the resource part of an identifier: nothing, prefixes cut
\* short, the full prefix of a WAFv2 identifier, one with a path in its
\* first field, one with a field too many
ArnHeads ==
    {"", "arn:", "arn:aws:wafv2:", "arn:aws:wafv2:us-east-1:",
     "arn:aws:wafv2:us-east-1:111122223333:",
     "arn:aws:wafv2:eu-west-1:111122223333:",
     "a/b/c:aws:wafv2:us-east-1:111122223333:",
     "arn:aws:wafv2:us-east-1:111122223333:x:"}

\* the resource part: scope segment, policy name and policy id, or less
ArnTails ==
    {"", "global", "global/webacl", "global/webacl/edge/g1", "regional/webacl/app/r1",
     "edge/g1", "global/edge/g1", "473e64fd-f30b-4765-81a0-62ad96dd167a", "webacl/"}

ParseArgs == {head \o tail : head \in ArnHeads, tail \in ArnTails}

ParseInit ==
    /\ pc = "parse"
    /\ parse_arg \in ParseArgs
    /\ invocation = NoInvocation
    /\ resource = NoResource
    /\ ret = None
    /\ regions = <<>>
    /\ cloud = NoCloud
    /\ origins_map = EmptyDict
    /\ associations_map = EmptyDict
    /\ work = <<>>
    /\ wi = 0
    /\ budget = 0
    /\ resource_types = <<>>
    /\ include_waf_lookup = FALSE
    /\ waf_map = EmptyDict
    /\ scan_result = ScanResult("", <<>>)
    /\ ri = 1 /\ ti = 1 /\ ei = 1
    /\ api_log = <<>>
    /\ call_log = <<>>
    /\ raised = ""

\* lines 706-727: the method returns a WebACL or None; it raises nothing
Parse ==
    /\ pc = "parse"
    /\ ret' = Some(_parse_waf_arn(parse_arg))
    /\ pc' = "returned"
    /\ UNCHANGED <<resource, regions, resource_types, include_waf_lookup, cloud,
                   waf_map, origins_map, scan_result, ri, ti, ei, associations_map,
                   work, wi, api_log, call_log, budget, raised, parse_arg,
                   invocation>>

SpecParse == ParseInit /\ [][Parse]_vars

-----------------------------------------------------------------------------
(* Boto3AWSClient.get_waf_associations_map, one insertion at a time        *)

MaxArns == 2

\* the identifiers a policy may be listed as protecting
WafArns == {StageProd, StageDev, RestApiArn, AlbArn, HttpStage}

\* the sequences over S of length at most n
RECURSIVE SeqsUpTo(_, _)
SeqsUpTo(S, n) ==
    IF n = 0 THEN {<<>>}
    ELSE SeqsUpTo(S, n - 1) \cup
         {Append(q, x) : q \in {t \in SeqsUpTo(S, n - 1) : Len(t) = n - 1}, x \in S}

WafClouds ==
    {Cloud("internal",
           WebAcls(<<GlobalPolicy(g)>>, <<Policy1(a1), Policy2(a2)>>, <<Policy3(a3)>>),
           <<>>) :
        g \in {<<>>, <<Dist1Arn>>},
        a1 \in SeqsUpTo(WafArns, MaxArns),
        a2 \in {<<>>, <<StageDev>>, <<StageProd>>, <<RestApiArn>>},
        a3 \in {<<>>, <<StageDev>>}}

WafRegionLists ==
    {<<"us-east-1">>, <<"us-east-1", "eu-west-1">>, <<"eu-west-1", "us-east-1">>,
     <<"us-east-1", "us-east-1">>}

WafInit ==
    /\ pc = "waf_called"
    /\ regions \in WafRegionLists
    /\ cloud \in WafClouds
    /\ resource = NoResource
    /\ ret = None
    /\ origins_map = EmptyDict
    /\ associations_map = EmptyDict
    /\ work = <<>>
    /\ wi = 0
    /\ budget = 0
    /\ ScanIdle

wafFrame == <<resource, parse_arg, invocation, regions, resource_types, include_waf_lookup, cloud, waf_map,
              origins_map, scan_result, ri, ti, ei, budget>>

\* lines 373-386: the listings are made; work is what the loops will insert
WafStart ==
    /\ pc = "waf_called"
    /\ \E os \in WafOutcomes(Len(regions)) :
        /\ work' = WafInsertions(regions, Head(os), Tail(os))
        /\ raised' = IF FirstRaise(WafListingCalls(regions, Head(os), Tail(os))) # 0
                     THEN ExcOf("other_error") ELSE ""
        /\ call_log' = call_log \o WafListingsMade(regions, Head(os), Tail(os))
        /\ api_log' = Logged(
              [n \in 1..Len(os) |->
                  ApiCall("list_web_acls",
                          WafListingCalls(regions, Head(os), Tail(os))[n].region,
                          WafListingCalls(regions, Head(os), Tail(os))[n].scope, os[n])])
    /\ associations_map' = EmptyDict
    /\ wi' = 0
    /\ pc' = "waf_loop"
    /\ UNCHANGED <<wafFrame, ret>>

\* lines 378-380 and 387-399: one (policy, identifier) pair
WafInsert ==
    /\ pc = "waf_loop"
    /\ wi < Len(work)
    /\ associations_map' = Insert(associations_map, work[wi + 1])
    /\ wi' = wi + 1
    /\ UNCHANGED <<wafFrame, pc, ret, work, api_log, call_log, raised>>

\* line 401, or the exception of a listing
WafReturn ==
    /\ pc = "waf_loop"
    /\ wi = Len(work)
    /\ IF raised # ""
       THEN pc' = "raised" /\ UNCHANGED ret
       ELSE pc' = "returned" /\ ret' = Some(associations_map)
    /\ UNCHANGED <<wafFrame, associations_map, work, wi, api_log, call_log, raised>>

WafNext == WafStart \/ WafInsert \/ WafReturn

SpecWaf == WafInit /\ [][WafNext]_vars

-----------------------------------------------------------------------------
(* Boto3AWSClient.get_cloudfront_origins_map on its own                    *)

MaxOrigins == 2

\* origin hostnames: a load balancer, a gateway, two storage origins, and
\* names that only resemble the storage pattern
OriginHosts ==
    {AlbDns, "abc.execute-api.us-east-1.amazonaws.com",
     "assets.s3.amazonaws.com", "logs.s3-eu-west-1.amazonaws.com",
     "s3.example.com", "my-s3-bucket.example.com"}

OriginClouds ==
    {Cloud("internal", WebAcls(<<>>, <<>>, <<>>),
           <<Distribution("D1", "d1.cloudfront.net", acl1, hosts1),
             Distribution("D2", "d2.cloudfront.net", acl2, hosts2)>>) :
        acl1 \in ScanWebAclIds,
        hosts1 \in SeqsUpTo(OriginHosts, MaxOrigins),
        acl2 \in {"", GlobalAcl1},
        hosts2 \in {<<>>, <<AlbDns, "assets.s3.amazonaws.com">>}}

OriginsInit ==
    /\ pc = "origins_called"
    /\ cloud \in OriginClouds
    /\ regions = <<>>
    /\ resource = NoResource
    /\ ret = None
    /\ origins_map = EmptyDict
    /\ associations_map = EmptyDict
    /\ work = <<>>
    /\ wi = 0
    /\ budget = MaxFailures
    /\ ScanIdle

\* lines 588-640
OriginsBuild ==
    /\ pc = "origins_called"
    /\ \E os \in OriginsOutcomes(Len(cloud.distributions)) :
        LET built == get_cloudfront_origins_map(os[1], os[2], Tail(Tail(os)))
        IN  /\ call_log' = call_log \o <<Called("get_cloudfront_origins_map", "", "")>>
            /\ api_log' = Logged(OriginsCalls(os))
            /\ IF built.exc # ""
               THEN /\ pc' = "raised" /\ raised' = built.exc
                    /\ UNCHANGED <<origins_map, ret>>
               ELSE /\ pc' = "returned" /\ raised' = raised
                    /\ origins_map' = built.value
                    /\ ret' = Some(built.value)
    /\ UNCHANGED <<resource, regions, resource_types, include_waf_lookup, cloud,
                   waf_map, scan_result, ri, ti, ei, associations_map, work, wi,
                   budget, parse_arg,
                   invocation>>

SpecOrigins == OriginsInit /\ [][OriginsBuild]_vars

-----------------------------------------------------------------------------
(* The Lambda handler (src/src/adapters/inbound/lambda_handler.py)         *)
(* scanner.scan is taken as a whole here: it raises, or it returns a       *)
(* ScanResult, whose statistics the handler reads.                         *)

MaxScanned == 2

\* s.strip(), for the blanks an environment variable may hold
RECURSIVE Strip(_)
Strip(s) ==
    IF s = "" THEN ""
    ELSE IF SubSeq(s, 1, 1) = " " THEN Strip(SubSeq(s, 2, Len(s)))
    ELSE IF SubSeq(s, Len(s), Len(s)) = " " THEN Strip(SubSeq(s, 1, Len(s) - 1))
    ELSE s

\* line 85: [a.strip() for a in s.split(",") if a.strip()]
StrippedEntries(s) ==
    LET NotBlank(a) == Strip(a) # ""
    IN  Map(SelectSeq(Split(s, ","), NotBlank), Strip)

\* lines 84-85 and 108-110
TargetAccounts(env) ==
    IF StrippedEntries(env) = <<>> THEN <<"local">> ELSE StrippedEntries(env)

RECURSIVE SumSeq(_)
SumSeq(ns) == IF ns = <<>> THEN 0 ELSE Head(ns) + SumSeq(Tail(ns))

\* lines 145-152
AccountResult(sr) ==
    [account_id |-> sr.account_id,
     total_resources |-> total_resources(sr),
     resources_with_waf |-> resources_with_waf(sr),
     resources_without_waf |-> resources_without_waf(sr),
     compliance_rate |-> get_compliance_rate(sr),
     errors_count |-> Len(sr.errors)]

\* line 174
StatusCode(errors) == IF errors = <<>> THEN 200 ELSE 207

\* lines 169-187
Response(all_results, errors) ==
    LET total == SumSeq([n \in 1..Len(all_results) |-> all_results[n].total_resources])
        total_protected ==
            SumSeq([n \in 1..Len(all_results) |-> all_results[n].resources_with_waf])
        total_unprotected ==
            SumSeq([n \in 1..Len(all_results) |-> all_results[n].resources_without_waf])
    IN  [statusCode |-> StatusCode(errors),
         body |-> [accounts_scanned |-> Len(all_results),
                   accounts_failed |-> Len(errors),
                   total_resources |-> total,
                   resources_with_waf |-> total_protected,
                   resources_without_waf |-> total_unprotected,
                   overall_compliance_rate |->
                        IF total > 0 THEN Ratio(total_protected * 100, total)
                        ELSE Ratio(100, 1),
                   results_by_account |-> all_results,
                   errors |-> errors]]

\* values of the environment variable TARGET_ACCOUNTS
TargetAccountsEnv ==
    {"", " , ", "111122223333", "111122223333,444455556666",
     " 444455556666 ,,111122223333", "444455556666,444455556666",
     "local,444455556666"}

\* what a scan may find in an account: a load balancer with and without a
\* policy, and an HTTP gateway, which needs none
AccountResources ==
    {Resource(AlbArn, ALB, "us-east-1", Account, None, TRUE, Some(SomeAcl)),
     Resource(AlbArn, ALB, "us-east-1", Account, None, TRUE, None),
     Resource(HttpApiArn("us-east-1", "h1"), API_GATEWAY_HTTP, "us-east-1", Account,
              None, TRUE, None)}

\* the ScanResults scanner.scan may return for an account
AccountScans(account_id) ==
    {[ScanResult(IF account_id = "local" THEN Account ELSE account_id, <<"us-east-1">>)
        EXCEPT !.resources = rs, !.scan_completed_at = Some("utcnow")] :
        rs \in SeqsUpTo(AccountResources, MaxScanned)}

LambdaInit ==
    /\ pc = "handler_called"
    /\ invocation \in {[NoInvocation EXCEPT !.TARGET_ACCOUNTS = env] :
                            env \in TargetAccountsEnv}
    /\ resource = NoResource
    /\ ret = None
    /\ regions = <<"us-east-1">>
    /\ cloud = NoCloud
    /\ origins_map = EmptyDict
    /\ associations_map = EmptyDict
    /\ work = <<>>
    /\ wi = 0
    /\ budget = MaxFailures
    /\ resource_types = <<>>
    /\ include_waf_lookup = TRUE
    /\ waf_map = EmptyDict
    /\ scan_result = ScanResult("", <<>>)
    /\ ri = 1 /\ ti = 1 /\ ei = 1
    /\ api_log = <<>>
    /\ call_log = <<>>
    /\ raised = ""
    /\ parse_arg = ""

lambdaFrame == <<resource, ret, regions, resource_types, include_waf_lookup, cloud,
                 waf_map, origins_map, scan_result, ri, ti, ei, associations_map,
                 work, wi, budget, raised, parse_arg>>

\* lines 84-110: the target accounts and the empty aggregates
HandlerStart ==
    /\ pc = "handler_called"
    /\ invocation' = [invocation EXCEPT
                        !.target_accounts = TargetAccounts(invocation.TARGET_ACCOUNTS),
                        !.account = 1,
                        !.all_results = <<>>,
                        !.errors = <<>>]
    /\ pc' = "accounts"
    /\ UNCHANGED <<lambdaFrame, api_log, call_log>>

\* A plausible slip: the first account that fails ends the loop
HandlerAccountStopping ==
    /\ pc = "accounts"
    /\ LET account_id == invocation.target_accounts[invocation.account]
       IN  \E os \in {o \in OutcomeSeqs(2) :
                        /\ account_id = "local" => o[1] = "ok"
                        /\ o[1] # "ok" => o[2] = "ok"} :
              /\ call_log' = call_log
                    \o <<Called("set_context", "", account_id)>>
                    \o (IF account_id # "local"
                        THEN <<Called("assume_role", "", account_id)>> ELSE <<>>)
                    \o (IF os[1] = "ok" THEN <<Called("scan", "", account_id)>> ELSE <<>>)
              /\ api_log' = Logged(<<ApiCallOn("assume_role", "us-east-1", "",
                                               account_id, os[1]),
                                     ApiCallOn("scan", "", "", account_id, os[2])>>)
              /\ IF os[1] = "ok" /\ os[2] = "ok"
                 THEN /\ \E sr \in AccountScans(account_id) :
                            invocation' = [invocation EXCEPT
                                !.all_results = @ \o <<AccountResult(sr)>>,
                                !.account = @ + 1]
                      /\ pc' = IF invocation.account < Len(invocation.target_accounts)
                               THEN "accounts" ELSE "respond"
                 ELSE /\ invocation' = [invocation EXCEPT
                            !.errors = @ \o <<[account_id |-> account_id,
                                               error |-> ExcOf(IF os[1] # "ok" THEN os[1]
                                                               ELSE os[2])]>>,
                            !.account = @ + 1]
                      /\ pc' = "respond"
    /\ UNCHANGED lambdaFrame

\* lines 112-166: one target account; os[1] is the outcome of assume_role
\* (not called for the local account), os[2] that of scanner.scan
HandlerAccount ==
    /\ pc = "accounts"
    /\ LET account_id == invocation.target_accounts[invocation.account]
       IN  \E os \in {o \in OutcomeSeqs(2) :
                        /\ account_id = "local" => o[1] = "ok"
                        /\ o[1] # "ok" => o[2] = "ok"} :
              /\ call_log' = call_log
                    \o <<Called("set_context", "", account_id)>>
                    \o (IF account_id # "local"
                        THEN <<Called("assume_role", "", account_id)>> ELSE <<>>)
                    \o (IF os[1] = "ok" THEN <<Called("scan", "", account_id)>> ELSE <<>>)
              /\ api_log' = Logged(<<ApiCallOn("assume_role", "us-east-1", "",
                                               account_id, os[1]),
                                     ApiCallOn("scan", "", "", account_id, os[2])>>)
              /\ IF os[1] = "ok" /\ os[2] = "ok"
                 THEN \E sr \in AccountScans(account_id) :
                            invocation' = [invocation EXCEPT
                                !.all_results = @ \o <<AccountResult(sr)>>,
                                !.account = @ + 1]
                 ELSE invocation' = [invocation EXCEPT
                            !.errors = @ \o <<[account_id |-> account_id,
                                               error |-> ExcOf(IF os[1] # "ok" THEN os[1]
                                                               ELSE os[2])]>>,
                            !.account = @ + 1]
    /\ pc' = IF invocation.account < Len(invocation.target_accounts)
             THEN "accounts" ELSE "respond"
    /\ UNCHANGED lambdaFrame

\* lines 169-197
HandlerRespond ==
    /\ pc = "respond"
    /\ invocation' = [invocation EXCEPT
                        !.response = Some(Response(invocation.all_results,
                                                   invocation.errors))]
    /\ pc' = "responded"
    /\ UNCHANGED <<lambdaFrame, api_log, call_log>>

LambdaNext == HandlerStart \/ HandlerAccount \/ HandlerRespond

SpecLambda == LambdaInit /\ [][LambdaNext]_vars

-----------------------------------------------------------------------------
(* Properties                                                              *)

StatusOf(r) == get_compliance_status(r)

\* the status the rule cascade of the specification gives a resource
CascadeStatus(r) ==
    IF r.web_acl # None THEN "COMPLIANT"
    ELSE IF r.fronted_by_waf # None THEN "COMPLIANT_FRONTED_BY_WAF"
    ELSE IF \/ r.resource_type = CLOUDFRONT
            \/ r.resource_type = ALB /\ r.is_public
            \/ r.resource_type = API_GATEWAY_REST /\ r.is_public
    THEN "NON_COMPLIANT"
    ELSE "COMPLIANT_NO_WAF_REQUIRED"

\* C1: for every resource type, exposure flag, direct policy and fronted-by
\* policy, get_compliance_status follows the cascade direct > fronted-by >
\* (CDN | public load balancer | public REST gateway) > no WAF required, and
\* is_compliant is false exactly when the status is NON_COMPLIANT.
C1_StatusCascade ==
    pc = "returned" =>
        /\ ret[1].status = CascadeStatus(resource)
        /\ (ret[1].compliant = FALSE) <=> (ret[1].status = "NON_COMPLIANT")

C1_Witness ==
    /\ pc = "returned"
    /\ resource.resource_type = API_GATEWAY_REST
    /\ resource.is_public
    /\ resource.web_acl = None /\ resource.fronted_by_waf = None
    /\ ret[1].status = "NON_COMPLIANT"
    /\ ~ret[1].compliant

\* the resources of the scan result
Scanned == {scan_result.resources[n] : n \in 1..Len(scan_result.resources)}

\* the DNS name the lookup of a load balancer resolves to (None if it has none)
ResolvedDns(r) == _get_alb_dns_name(r.arn, r.region, "ok").value

\* the load balancers whose DNS name is an origin fronted by a protected
\* distribution
FrontedLoadBalancers ==
    {r \in Scanned :
        /\ r.resource_type = ALB
        /\ ResolvedDns(r) # None
        /\ ResolvedDns(r)[1] \in DOMAIN origins_map
        /\ \E n \in 1..Len(origins_map[ResolvedDns(r)[1]]) :
              origins_map[ResolvedDns(r)[1]][n].web_acl # None}

FrontedByPopulated(r) ==
    /\ r.fronted_by_resource_arn # None
    /\ r.fronted_by_waf # None
    /\ r.fronted_by_notes # None

FrontedByEmpty(r) ==
    /\ r.fronted_by_resource_arn = None
    /\ r.fronted_by_waf = None
    /\ r.fronted_by_notes = None

\* C2 as claimed: every load balancer whose DNS name is an origin of a
\* protected distribution ends the scan fronted-by and COMPLIANT_FRONTED_BY_WAF.
C2_AsClaimed ==
    (pc = "done" /\ include_waf_lookup) =>
        \A r \in FrontedLoadBalancers :
            FrontedByPopulated(r) /\ StatusOf(r) = "COMPLIANT_FRONTED_BY_WAF"

\* C2 (amended): a load balancer without a direct policy whose DNS name is an
\* origin of a protected distribution ends the scan fronted-by and
\* COMPLIANT_FRONTED_BY_WAF; one with a direct policy ends it COMPLIANT with
\* no fronted-by field set.
C2_OriginMatching ==
    (pc = "done" /\ include_waf_lookup) =>
        \A r \in FrontedLoadBalancers :
            IF r.web_acl = None
            THEN FrontedByPopulated(r) /\ StatusOf(r) = "COMPLIANT_FRONTED_BY_WAF"
            ELSE FrontedByEmpty(r) /\ StatusOf(r) = "COMPLIANT"

C2_Witness ==
    /\ pc = "done"
    /\ \E r \in FrontedLoadBalancers :
        /\ r.web_acl = None
        /\ r.fronted_by_waf # None
        /\ StatusOf(r) = "COMPLIANT_FRONTED_BY_WAF"

\* a regional insertion of a stage identifier of a REST API
IsStageItem(item) ==
    /\ item.scope = "REGIONAL"
    /\ Contains("/restapis/", item.resource_arn)
    /\ Contains("/stages/", item.resource_arn)

\* the stage identifier truncated at '/stages/'
ParentOf(arn) == SubSeq(arn, 1, Find("/stages/", arn) - 1)

\* the insertion writes the entry of identifier k
Writes(item, k) ==
    \/ item.resource_arn = k
    \/ IsStageItem(item) /\ ParentOf(item.resource_arn) = k

\* C3: when a regional policy protects a stage identifier X/restapis/ABC/
\* stages/prod, the built index has an entry for the stage and one for the
\* parent X/restapis/ABC; both are that policy unless another policy is
\* listed for the same stage or parent.
C3_StageAndParent ==
    pc = "returned" =>
        \A n \in 1..Len(work) :
            IsStageItem(work[n]) =>
                LET stage == work[n].resource_arn
                    parent == ParentOf(stage)
                IN  /\ stage \in DOMAIN ret[1]
                    /\ parent \in DOMAIN ret[1]
                    /\ (\A q \in 1..Len(work) :
                            (Writes(work[q], stage) \/ Writes(work[q], parent))
                                => work[q].acl = work[n].acl)
                        => /\ ret[1][stage] = work[n].acl
                           /\ ret[1][parent] = work[n].acl

C3_Witness ==
    /\ pc = "returned"
    /\ Len(work) = 1
    /\ work[1].resource_arn = StageProd
    /\ DOMAIN ret[1] = {StageProd, RestApiArn}
    /\ ret[1][StageProd].id = "p1"
    /\ ret[1][RestApiArn].id = "p1"

\* the first insertion that writes the entry of identifier k
FirstWriter(k) ==
    CHOOSE n \in 1..Len(work) :
        Writes(work[n], k) /\ \A q \in 1..(n - 1) : ~Writes(work[q], k)

\* the last insertion of identifier k itself
LastOwn(k) ==
    CHOOSE n \in 1..Len(work) :
        work[n].resource_arn = k /\ \A q \in (n + 1)..Len(work) : work[q].resource_arn # k

\* C4: stages of one API protected by different policies: the parent-level
\* entry is the policy of the stage processed first, each stage-level entry
\* is the stage's own policy, and inserting a stage never changes a
\* parent-level entry that exists.
C4_FirstStageWins ==
    /\ [](pc = "returned" =>
            \A n \in 1..Len(work) :
                IsStageItem(work[n]) =>
                    LET stage == work[n].resource_arn
                        parent == ParentOf(stage)
                    IN  /\ (\A q \in 1..Len(work) : work[q].resource_arn # parent)
                            => ret[1][parent] = work[FirstWriter(parent)].acl
                        /\ ret[1][stage] = work[LastOwn(stage)].acl)
    /\ [][(pc = "waf_loop" /\ wi < Len(work) /\ IsStageItem(work[wi + 1])
            /\ ParentOf(work[wi + 1].resource_arn) \in DOMAIN associations_map)
          => associations_map'[ParentOf(work[wi + 1].resource_arn)]
                = associations_map[ParentOf(work[wi + 1].resource_arn)]]_vars

C4_Witness ==
    /\ pc = "returned"
    /\ Len(work) = 2
    /\ work[1].resource_arn = StageProd /\ work[1].acl.id = "p1"
    /\ work[2].resource_arn = StageDev /\ work[2].acl.id = "p2"
    /\ ret[1][RestApiArn].id = "p1"
    /\ ret[1][StageProd].id = "p1"
    /\ ret[1][StageDev].id = "p2"

\* the propagator has looked at the n-th resource
Propagated(n) ==
    /\ include_waf_lookup
    /\ \/ pc \in {"complete", "done"}
       \/ pc = "enrich" /\ n < ei

\* the hostname the propagator derives for a resource (None if it has none)
HostnameOf(r) == match_resource_to_origin(r, "ok").value

\* the entries of the origin index for the resource's hostname
EntriesOf(r) ==
    IF HostnameOf(r) # None /\ HostnameOf(r)[1] \in DOMAIN origins_map
    THEN origins_map[HostnameOf(r)[1]]
    ELSE <<>>

\* C5: an eligible resource whose hostname has entries in the origin index
\* gets the identifier and policy of the first entry, in list order, that
\* carries a policy, with a note, and nothing if no entry carries one; a
\* resource with a fronted-by identifier always has a fronted-by policy.
C5_FirstProtectedEntry ==
    \A n \in 1..Len(scan_result.resources) :
        LET r == scan_result.resources[n]
            entries == EntriesOf(r)
        IN  /\ r.fronted_by_resource_arn # None => r.fronted_by_waf # None
            /\ (Propagated(n) /\ CanBeFronted(r) /\ r.web_acl = None /\ entries # <<>>) =>
                IF \E k \in 1..Len(entries) : entries[k].web_acl # None
                THEN \E k \in 1..Len(entries) :
                        /\ entries[k].web_acl # None
                        /\ \A q \in 1..(k - 1) : entries[q].web_acl = None
                        /\ r.fronted_by_resource_arn = Some(entries[k].cloudfront_arn)
                        /\ r.fronted_by_waf = entries[k].web_acl
                        /\ r.fronted_by_notes # None
                ELSE FrontedByEmpty(r)

\* two distributions front a resource, the first without a policy, and the
\* second one is taken; another resource is fronted by an unprotected
\* distribution only and gets nothing
C5_Witness ==
    /\ pc = "done"
    /\ \E r \in Scanned :
        /\ Len(EntriesOf(r)) = 2
        /\ EntriesOf(r)[1].web_acl = None /\ EntriesOf(r)[2].web_acl # None
        /\ r.fronted_by_resource_arn = Some(EntriesOf(r)[2].cloudfront_arn)
        /\ r.fronted_by_waf = EntriesOf(r)[2].web_acl
        /\ r.fronted_by_notes # None
    /\ \E r \in Scanned :
        /\ CanBeFronted(r) /\ r.web_acl = None
        /\ EntriesOf(r) # <<>>
        /\ \A k \in 1..Len(EntriesOf(r)) : EntriesOf(r)[k].web_acl = None
        /\ FrontedByEmpty(r)

\* the propagator skips the resource
Skipped(r) == r.web_acl # None \/ r.resource_type \notin {API_GATEWAY_HTTP, API_GATEWAY_REST, ALB}

\* a step of the propagator leaves the skipped resources as they are
SkippedUnchanged ==
    pc \in {"origins", "enrich"} =>
        /\ Len(scan_result'.resources) = Len(scan_result.resources)
        /\ \A n \in 1..Len(scan_result.resources) :
              Skipped(scan_result.resources[n])
                => (scan_result.resources[n])' = scan_result.resources[n]

\* C6: the propagator changes no field of a resource that carries a direct
\* policy or whose type is not HTTP gateway, REST gateway or load balancer;
\* resources of the other five types never have a fronted-by field.
C6_PropagatorFrame ==
    /\ [][SkippedUnchanged]_vars
    /\ [](\A r \in Scanned :
            r.resource_type \in {CLOUDFRONT, APPSYNC, COGNITO, APP_RUNNER, VERIFIED_ACCESS}
                => FrontedByEmpty(r))

\* a load balancer with a direct policy, fronted by a protected distribution,
\* is left as it was
C6_Witness ==
    /\ pc = "done"
    /\ include_waf_lookup
    /\ \E r \in FrontedLoadBalancers : r.web_acl # None /\ FrontedByEmpty(r)
    /\ \E r \in Scanned : r.resource_type = CLOUDFRONT /\ r.web_acl = None

\* the (region, type) pairs for which list_resources is called
EnumeratedPairs ==
    {p \in (1..Len(regions)) \X (1..Len(resource_types)) :
        ~SkipsPair(resource_types[p[2]], regions[p[1]])}

\* the API calls of list_resources for the pair that failed with `kind`
PairFailures(region, resource_type, kind) ==
    {n \in 1..Len(api_log) :
        /\ api_log[n].op \in {"list_resources", "get_distribution"}
        /\ api_log[n].region = region
        /\ api_log[n].resource_type = resource_type
        /\ api_log[n].kind = kind}

\* the error records of the pair
PairErrors(region, resource_type) ==
    {n \in 1..Len(scan_result.errors) :
        /\ scan_result.errors[n].region = region
        /\ scan_result.errors[n].resource_type = resource_type}

\* the resources of the result enumerated by the pair
PairResources(region, resource_type) ==
    {r \in Scanned :
        /\ r.resource_type = resource_type
        /\ r.region = IF resource_type = CLOUDFRONT THEN "global" ELSE region}

\* the identifiers the pair's listing answers when its calls succeed
PairListing(region, resource_type) ==
    LET listed == list_resources(resource_type, region, "ok",
                                 [n \in 1..Len(cloud.distributions) |-> "ok"]).value
    IN  {listed[n].arn : n \in 1..Len(listed)}

\* C7: when list_resources raises for a (region, type) pair, exactly one
\* error record with that region and type is added and no resource of the
\* pair; the scan still finishes, and every pair whose calls succeed has all
\* its resources in the result and no error record.
C7_PartialFailure ==
    pc = "done" =>
        \A p \in EnumeratedPairs :
            LET region == regions[p[1]]
                resource_type == resource_types[p[2]]
            IN  IF PairFailures(region, resource_type, "other_error") # {}
                THEN /\ Cardinality(PairErrors(region, resource_type)) = 1
                     /\ PairResources(region, resource_type) = {}
                ELSE /\ PairErrors(region, resource_type) = {}
                     /\ PairFailures(region, resource_type, "client_error") = {}
                          => {r.arn : r \in PairResources(region, resource_type)}
                                = PairListing(region, resource_type)

C7_Witness ==
    /\ pc = "done"
    /\ Len(scan_result.errors) = 1
    /\ scan_result.errors[1].region = "eu-west-1"
    /\ scan_result.errors[1].resource_type = API_GATEWAY_HTTP
    /\ \E r \in Scanned : r.resource_type = ALB
    /\ \E r \in Scanned : r.resource_type = COGNITO

\* C8 as claimed: once the caller's identity has been obtained (the
\* ScanResult exists), no failure of a collaborator call makes scan() raise.
C8_NeverAborts == pc = "raised" => scan_result.account_id = ""

\* C9 as claimed: when the listing API call of a (region, type) pair fails
\* with a ClientError, the finished scan has an error record for the pair.
C9_TransientErrorRecorded ==
    pc = "done" =>
        \A n \in 1..Len(api_log) :
            (api_log[n].op = "list_resources" /\ api_log[n].kind = "client_error")
                => PairErrors(api_log[n].region, api_log[n].resource_type) # {}

\* C10: no hostname that contains '.s3.' or '.s3-' is a key of the origin index.
C10_NoStorageOrigins ==
    \A domain \in DOMAIN origins_map :
        ~(Contains(".s3.", domain) \/ Contains(".s3-", domain))

\* both storage forms were configured, and a name that only resembles them
\* is indexed
C10_Witness ==
    /\ pc = "returned"
    /\ api_log = <<>>
    /\ cloud.distributions[1].Origins = <<"logs.s3-eu-west-1.amazonaws.com", "s3.example.com">>
    /\ cloud.distributions[2].Origins = <<AlbDns, "assets.s3.amazonaws.com">>
    /\ DOMAIN origins_map = {"s3.example.com", AlbDns}

\* the distribution's detail fetch (get_distribution) succeeded
Fetched(dist) ==
    \A n \in 1..Len(api_log) :
        /\ api_log[n].op # "list_distributions"
        /\ ~(api_log[n].op = "get_distribution" /\ api_log[n].target = dist.Id)

\* the origins of the account in enumeration order: distribution by
\* distribution, each one's origins in list order
OriginOccurrences ==
    Flatten([n \in 1..Len(cloud.distributions) |->
                [j \in 1..Len(cloud.distributions[n].Origins) |->
                    [dist |-> cloud.distributions[n],
                     domain |-> cloud.distributions[n].Origins[j]]]])

\* the indexed origins of hostname k, in enumeration order
IndexedOccurrences(k) ==
    SelectSeq(OriginOccurrences,
              LAMBDA oc : /\ oc.domain = k
                          /\ Fetched(oc.dist)
                          /\ ~(Contains(".s3.", k) \/ Contains(".s3-", k)))

NoEmptyPart(s, sep) == \A n \in 1..Len(Split(s, sep)) : Split(s, sep)[n] # ""

\* scheme:service:region:account:scopeSegment/policyName/policyId, read
\* generously: five or six ':'-separated fields (the scheme may or may not
\* carry a partition), no '/' before the last field, and a last field of
\* at least three non-empty '/'-separated parts
HasPolicyIdentifierForm(id) ==
    LET fields == Split(id, ":")
    IN  /\ Len(fields) \in {5, 6}
        /\ \A n \in 1..(Len(fields) - 1) : ~Contains("/", fields[n])
        /\ Len(Split(Last(fields), "/")) >= 3
        /\ NoEmptyPart(Last(fields), "/")

\* C12 as claimed: _parse_waf_arn yields no policy for every identifier
\* that does not have the form
\* scheme:service:region:account:scopeSegment/policyName/policyId.
C12_MalformedYieldsNoPolicy ==
    (pc = "returned" /\ ~HasPolicyIdentifierForm(parse_arg)) => ret[1] = None

\* the policies (WebACL) the scan has constructed so far: the values of the
\* association index, the policies on resources, those of the origin index
Policies ==
    {waf_map[k] : k \in DOMAIN waf_map}
    \cup {r.web_acl[1] : r \in {x \in Scanned : x.web_acl # None}}
    \cup {r.fronted_by_waf[1] : r \in {x \in Scanned : x.fronted_by_waf # None}}
    \cup UNION {{origins_map[k][i].web_acl[1] :
                    i \in {j \in 1..Len(origins_map[k]) : origins_map[k][j].web_acl # None}} :
                k \in DOMAIN origins_map}

EndsWith(s, suffix) ==
    /\ Len(s) >= Len(suffix)
    /\ SubSeq(s, Len(s) - Len(suffix) + 1, Len(s)) = suffix

\* {apiId}.execute-api.{region}.amazonaws.com
ExecuteApiHost(id, region) == id \o ".execute-api." \o region \o ".amazonaws.com"

\* the DNS names describe_load_balancers has for the identifier in the region
DnsNamesOf(arn, region) ==
    {cloud.load_balancers[region][n].DNSName :
        n \in {q \in 1..Len(cloud.load_balancers[region]) :
                    cloud.load_balancers[region][q].LoadBalancerArn = arn}}

\* C14: match_resource_to_origin returns {apiId}.execute-api.{region}.
\* amazonaws.com for an HTTP gateway, apiId being what follows '/apis/' at
\* the end of the identifier; the same with '/restapis/' for a REST gateway;
\* the looked-up DNS name, or None, for a load balancer; None for the rest.
C14_HostnameDeriver ==
    pc = "returned" =>
        LET r == resource
            h == ret[1]
        IN  CASE r.resource_type = API_GATEWAY_HTTP ->
                    \E id \in ApiIds : /\ EndsWith(r.arn, "/apis/" \o id)
                                        /\ h = Some(ExecuteApiHost(id, r.region))
              [] r.resource_type = API_GATEWAY_REST ->
                    \E id \in ApiIds : /\ EndsWith(r.arn, "/restapis/" \o id)
                                        /\ h = Some(ExecuteApiHost(id, r.region))
              [] r.resource_type = ALB ->
                    IF api_log = <<>> /\ DnsNamesOf(r.arn, r.region) # {}
                    THEN h # None /\ h[1] \in DnsNamesOf(r.arn, r.region)
                    ELSE h = None
              [] OTHER -> h = None

\* an HTTP gateway of eu-west-1 got its hostname
C14_Witness ==
    /\ pc = "returned"
    /\ resource.resource_type = API_GATEWAY_HTTP
    /\ resource.arn = "arn:aws:apigateway:eu-west-1::/apis/o5yl95v1g1"
    /\ ret[1] = Some("o5yl95v1g1.execute-api.eu-west-1.amazonaws.com")

\* the load balancers whose DNS-name lookup failed during propagation
FailedLookups ==
    {n \in 1..Len(api_log) : api_log[n].op = "describe_load_balancers"}

\* C15 as claimed: when the DNS-name lookup of a load balancer fails, the
\* resource stays without fronted-by fields, no error record is added, and
\* the propagator goes on: scan() does not raise and reaches its end with
\* the load balancer unmatched.
C15_LookupFailureUnmatched ==
    FailedLookups # {} =>
        /\ pc # "raised"
        /\ \A r \in Scanned : r.resource_type = ALB => FrontedByEmpty(r)
        /\ \A n \in 1..Len(scan_result.errors) :
                scan_result.errors[n].resource_type # ALB

\* how many resources of the list satisfy P, counted along the list
CountAlong(rs, P(_)) ==
    LET upTo[n \in 0..Len(rs)] ==
            IF n = 0 THEN 0 ELSE upTo[n - 1] + (IF P(rs[n]) THEN 1 ELSE 0)
    IN  upTo[Len(rs)]

\* the resource has a direct policy
DirectlyProtected(r) == r.web_acl # None

\* the resource's status is not NON_COMPLIANT
Compliant(r) == get_compliance_status(r) # "NON_COMPLIANT"

\* C16: whenever the statistics are read, after any additions and
\* attachments: the total is the length of the resource list, with and
\* without direct policy add up to it, compliant and non-compliant add up to
\* it, and the coverage rate is 100 x with / total (0 for the empty list).
C16_StatisticsAgree ==
    ret # None =>
        LET st == ret[1]
            rs == scan_result.resources
        IN  /\ st.total_resources = Len(rs)
            /\ st.resources_with_waf = CountAlong(rs, DirectlyProtected)
            /\ st.resources_with_waf + st.resources_without_waf = st.total_resources
            /\ st.compliant_resources + st.non_compliant_resources = st.total_resources
            /\ st.waf_coverage_rate.den > 0
            /\ IF rs = <<>>
               THEN st.waf_coverage_rate.num = 0
               ELSE st.waf_coverage_rate.num * Len(rs)
                        = 100 * CountAlong(rs, DirectlyProtected) * st.waf_coverage_rate.den

\* statistics read on three resources: one with a direct policy, one fronted
\* by a protected distribution, one without anything
C16_Witness ==
    /\ ret # None
    /\ ret[1].total_resources = 3
    /\ ret[1].resources_with_waf = 1
    /\ ret[1].resources_without_waf = 2
    /\ \E n \in 1..3 : /\ scan_result.resources[n].web_acl = None
                        /\ scan_result.resources[n].fronted_by_waf # None
    /\ ret[1].non_compliant_resources = 1

\* C17: the compliance rate of every ScanResult built by add_resource calls
\* lies between 0 and 100, equals compliant / total x 100, and is 100 when
\* there are no resources.
C17_ComplianceRate ==
    ret # None =>
        LET rate == ret[1].compliance_rate
            rs == scan_result.resources
        IN  /\ rate.den > 0
            /\ 0 <= rate.num /\ rate.num <= 100 * rate.den
            /\ IF rs = <<>>
               THEN rate.num = 100 * rate.den
               ELSE rate.num * Len(rs) = 100 * CountAlong(rs, Compliant) * rate.den

\* the rate of one compliant resource out of three, and of the empty result
C17_Witness ==
    /\ ret # None
    /\ Len(scan_result.resources) = 3
    /\ ret[1].compliant_resources = 1
    /\ ret[1].compliance_rate.num * 3 = 100 * ret[1].compliance_rate.den

\* the fronted-by fields of a resource
FrontedByFields(r) == <<r.fronted_by_resource_arn, r.fronted_by_waf, r.fronted_by_notes>>

\* a step of the scan writes the fields of the resources already in the list
\* at most once: the direct policy never changes once the association step
\* has added the resource; the fronted-by fields are written by the
\* propagator only, on the resource it looks at, when they are empty and the
\* resource has no direct policy; once the propagator is done nothing of a
\* resource changes
WriteOnceStep ==
    /\ Len(scan_result'.resources) >= Len(scan_result.resources)
    /\ \A n \in 1..Len(scan_result.resources) :
          LET before == scan_result.resources[n]
              after == (scan_result.resources[n])'
          IN  /\ after.web_acl = before.web_acl
              /\ FrontedByFields(after) # FrontedByFields(before) =>
                    /\ pc = "enrich" /\ n = ei
                    /\ FrontedByEmpty(before)
                    /\ before.web_acl = None
              /\ pc \in {"complete", "done"} => after = before

\* C18: during a scan the direct policy of a resource is written at most
\* once, by the association step, and its fronted-by fields at most once, by
\* the propagator and only when it has no direct policy; after the
\* propagator nothing is written, so no resource ends the scan with both
\* fronted-by fields and a direct policy.
C18_WrittenOnce ==
    /\ [][WriteOnceStep]_vars
    /\ [](\A r \in Scanned : ~FrontedByEmpty(r) => r.web_acl = None)

\* a finished scan with a directly protected resource and a load balancer
\* that got its fronted-by fields from the propagator
C18_Witness ==
    /\ pc = "done"
    /\ \E r \in Scanned : r.resource_type = API_GATEWAY_REST /\ r.web_acl # None
    /\ \E r \in Scanned : r.resource_type = ALB /\ r.web_acl = None /\ ~FrontedByEmpty(r)

\* the origin index of the account when every call answers
FullOriginsMap ==
    get_cloudfront_origins_map("ok", "ok", [n \in 1..Len(cloud.distributions) |-> "ok"]).value

\* every (region, type) pair is enumerated into the list and every direct
\* policy of the association index is attached
EnumerationFinished ==
    /\ \A p \in EnumeratedPairs :
          PairListing(regions[p[1]], resource_types[p[2]])
              = {r.arn : r \in PairResources(regions[p[1]], resource_types[p[2]])}
    /\ \A r \in Scanned :
          (r.resource_type # CLOUDFRONT /\ r.arn \in DOMAIN waf_map)
              => r.web_acl = Some(waf_map[r.arn])

\* the propagator has nothing left to do on any resource of the list
PropagationFinished ==
    \A r \in Scanned : EnrichResource(r, FullOriginsMap, "ok").value = r

\* C19: the propagator starts only when every (region, type) enumeration is
\* finished and every direct policy attached, so it works on the complete
\* list, and the completion timestamp is set only when the propagator is
\* finished.
C19_StepOrder ==
    /\ pc \in {"origins", "enrich"} => EnumerationFinished
    /\ (\E r \in Scanned : ~FrontedByEmpty(r)) =>
            /\ pc \in {"enrich", "complete", "done"}
            /\ EnumerationFinished
    /\ scan_result.scan_completed_at # None =>
            /\ EnumerationFinished
            /\ include_waf_lookup => PropagationFinished

\* the propagator at work on the list of two regions, the first resource
\* enriched, the timestamp not yet set
C19_Witness ==
    /\ pc = "enrich"
    /\ ei > 1
    /\ regions = <<"eu-west-1", "us-east-1">>
    /\ \E r \in Scanned : ~FrontedByEmpty(r)
    /\ \E r \in Scanned : r.region = "eu-west-1"
    /\ \E r \in Scanned : r.region = "us-east-1"
    /\ scan_result.scan_completed_at = None

\* the orderings of a list of regions
Orderings(rs) ==
    {perm \in [1..Len(rs) -> {rs[n] : n \in 1..Len(rs)}] :
        \E f \in [1..Len(rs) -> 1..Len(rs)] :
            /\ \A i, j \in 1..Len(rs) : i # j => f[i] # f[j]
            /\ \A i \in 1..Len(rs) : perm[i] = rs[f[i]]}

AllOk(rs) == [n \in 1..Len(rs) |-> "ok"]

\* the insertions and the index of the same account for a list of regions
InsertionsFor(rs) == WafInsertions(rs, "ok", AllOk(rs))

IndexFor(rs) == get_waf_associations_map(rs, "ok", AllOk(rs)).value

\* the key is the parent of a stage that some policy lists
IsDerivedParent(w, k) ==
    \E n \in 1..Len(w) : IsStageItem(w[n]) /\ ParentOf(w[n].resource_arn) = k

\* the policies listed for the key, directly or through a stage
PoliciesOf(w, k) == {w[n].acl : n \in {q \in 1..Len(w) : Writes(w[q], k)}}

\* C20 as claimed: any two orderings of the regions give the same keys and
\* the same policy for every key that is not a parent derived from a stage.
C20_SameButParents ==
    pc = "returned" =>
        \A perm \in Orderings(regions) :
            /\ DOMAIN IndexFor(perm) = DOMAIN ret[1]
            /\ \A k \in DOMAIN ret[1] :
                  ~IsDerivedParent(work, k) => IndexFor(perm)[k] = ret[1][k]

\* C20: any two orderings of the regions give the same keys, and the same
\* policy for every key that only one policy is listed for; an identifier
\* listed under several policies has the policy listed last in processing
\* order, a parent known only through its stages the policy of the stage
\* processed first.
C20_SameButCollisions ==
    pc = "returned" =>
        \A perm \in Orderings(regions) :
            LET m == IndexFor(perm)
                w == InsertionsFor(perm)
            IN  /\ DOMAIN m = DOMAIN ret[1]
                /\ \A k \in DOMAIN m :
                      /\ Cardinality(PoliciesOf(w, k)) = 1 => m[k] = ret[1][k]
                      /\ (\E n \in 1..Len(w) : w[n].resource_arn = k) =>
                            \E n \in 1..Len(w) :
                                /\ w[n].resource_arn = k /\ m[k] = w[n].acl
                                /\ \A q \in (n + 1)..Len(w) : w[q].resource_arn # k
                      /\ (\A n \in 1..Len(w) : w[n].resource_arn # k) =>
                            \E n \in 1..Len(w) :
                                /\ Writes(w[n], k) /\ m[k] = w[n].acl
                                /\ \A q \in 1..(n - 1) : ~Writes(w[q], k)

\* a stage listed by a policy of each region: its entry is the policy of the
\* region processed last, while the load balancer's entry is the same
C20_Witness ==
    /\ pc = "returned"
    /\ regions = <<"us-east-1", "eu-west-1">>
    /\ StageDev \in DOMAIN ret[1]
    /\ ret[1][StageDev].id = "p3"
    /\ IndexFor(<<"eu-west-1", "us-east-1">>)[StageDev].id = "p1"
    /\ AlbArn \in DOMAIN ret[1]
    /\ IndexFor(<<"eu-west-1", "us-east-1">>)[AlbArn] = ret[1][AlbArn]

-----------------------------------------------------------------------------
(* C21: the listings of one build of the association index                 *)

\* how many listings of the given scope and region the build has made
ListingsOf(scope, region) ==
    Cardinality({n \in 1..Len(call_log) :
        call_log[n] = Called("_list_web_acls_with_resources", region, scope)})

\* the policies of the account that protect nothing: the listing of their
\* scope and region reports them with no resource
UnusedPolicies ==
    LET Listed(k) == k[1] = "CLOUDFRONT" \/ \E q \in 1..Len(regions) : regions[q] = k[2]
        Protected(k, s) ==
            s.typed_arns \o (IF k[1] = "CLOUDFRONT" THEN s.untyped_arns ELSE <<>>)
    IN  UNION {{cloud.web_acls[k][n].ARN :
                    n \in {q \in 1..Len(cloud.web_acls[k]) :
                              Protected(k, cloud.web_acls[k][q]) = <<>>}} :
               k \in {key \in DOMAIN cloud.web_acls : Listed(key)}}

\* C21: when a build of the association index has returned, the policies of
\* the global scope were listed exactly once, whatever the number of
\* regions, and always in us-east-1; the regional policies of a region were
\* listed once per occurrence of the region in the given list, and no other
\* listing was made; a policy that protects no resource is the value of no
\* entry of the index.
C21_ListingsPerBuild ==
    pc = "returned" =>
        /\ Cardinality({n \in 1..Len(call_log) : call_log[n].what = "CLOUDFRONT"}) = 1
        /\ ListingsOf("CLOUDFRONT", "us-east-1") = 1
        /\ \A region \in Regions :
              ListingsOf("REGIONAL", region) =
                  Cardinality({q \in 1..Len(regions) : regions[q] = region})
        /\ Len(call_log) = 1 + Len(regions)
        /\ \A k \in DOMAIN ret[1] : ret[1][k].arn \notin UnusedPolicies

\* a build over two regions that returned a non-empty index although one
\* policy of a listed region protects nothing
C21_Witness ==
    /\ pc = "returned"
    /\ Len(regions) = 2
    /\ regions[1] # regions[2]
    /\ DOMAIN ret[1] # {}
    /\ UnusedPolicies # {}

-----------------------------------------------------------------------------
(* C22: the fields of a policy parsed from a raw identifier                *)

\* the policy _parse_waf_arn returned, when it returned one
Parsed == ret[1][1]

\* C22: whenever _parse_waf_arn returns a policy, its scope is CLOUDFRONT if
\* the sixth ':'-separated field of the identifier starts with "global" and
\* REGIONAL if it does not, and its name and id are the last but one and
\* the last '/'-separated segment of the identifier.
C22_ParsedFields ==
    (pc = "returned" /\ ret[1] # None) =>
        /\ Parsed.scope \in {"CLOUDFRONT", "REGIONAL"}
        /\ Parsed.scope = "CLOUDFRONT" <=> StartsWith(Split(parse_arg, ":")[6], "global")
        /\ Parsed.name = Split(parse_arg, "/")[Len(Split(parse_arg, "/")) - 1]
        /\ Parsed.id = Split(parse_arg, "/")[Len(Split(parse_arg, "/"))]

\* a regional policy parsed from an identifier that holds the global keyword
\* after its sixth field
C22_Witness ==
    /\ pc = "returned"
    /\ ret[1] # None
    /\ Parsed.scope = "REGIONAL"
    /\ Contains("global", parse_arg)
    /\ Parsed.name = "edge"
    /\ Parsed.id = "g1"

\* a global policy parsed from the identifier of a distribution's policy
C22_WitnessGlobal ==
    /\ pc = "returned"
    /\ ret[1] # None
    /\ Parsed.scope = "CLOUDFRONT"
    /\ Parsed.name = "edge"

-----------------------------------------------------------------------------
(* C23: the Compliance Evaluator is idempotent and pure                    *)

\* a call leaves the Resource as it was; the second call returns what the
\* first returned
PureStep ==
    (pc = "evaluate" \/ pc = "returned") =>
        (resource' = resource /\ (pc = "returned" => ret' = ret))

\* C23: a call of get_compliance_status and is_compliant on a Resource
\* changes no field of the Resource, and a second call on the same
\* Resource returns the values the first call returned.
C23_IdempotentAndPure == [][PureStep]_vars

\* both methods were called a second time on a public REST API that has no
\* policy of its own and is not fronted by a protected distribution
C23_Witness ==
    /\ pc = "returned_again"
    /\ resource.resource_type = API_GATEWAY_REST
    /\ resource.is_public
    /\ ret[1].status = "NON_COMPLIANT"
    /\ ~ret[1].compliant

-----------------------------------------------------------------------------
(* C24: a REST API protected through one of its stages only                *)

\* arn is the identifier of a stage of the REST API api_arn
IsStageOf(arn, api_arn) == StartsWith(arn, api_arn \o "/stages/")

\* the identifiers the listing of key k reports as protected by its n-th policy
ProtectedBy(k, n) ==
    cloud.web_acls[k][n].typed_arns \o
    (IF k[1] = "CLOUDFRONT" THEN cloud.web_acls[k][n].untyped_arns ELSE <<>>)

\* some policy of the account is listed as protecting the identifier itself
ListedAsProtected(arn) ==
    \E k \in DOMAIN cloud.web_acls : \E n \in 1..Len(cloud.web_acls[k]) :
        \E q \in 1..Len(ProtectedBy(k, n)) : ProtectedBy(k, n)[q] = arn

\* the regional policies of the API's region that protect a stage of it, by
\* their position in the listing
StagePolicies(r) ==
    {n \in 1..Len(cloud.web_acls[<<"REGIONAL", r.region>>]) :
        \E q \in 1..Len(ProtectedBy(<<"REGIONAL", r.region>>, n)) :
            IsStageOf(ProtectedBy(<<"REGIONAL", r.region>>, n)[q], r.arn)}

\* the first of them, as the index holds it
FirstStagePolicy(r) ==
    LET n == CHOOSE m \in StagePolicies(r) : \A q \in StagePolicies(r) : m <= q
        s == cloud.web_acls[<<"REGIONAL", r.region>>][n]
    IN  WebACL(s.ARN, s.Name, s.Id, "REGIONAL", r.region)

\* C24: at the end of a scan with the policy lookup, a REST API that no
\* policy lists under its own API-level identifier, but a stage of which a
\* regional policy of its region protects, carries as its direct policy the
\* policy of the first such stage processed, and its status is COMPLIANT,
\* whether or not its other stages have a policy.
C24_ProtectedThroughStage ==
    (pc = "done" /\ include_waf_lookup) =>
        \A n \in 1..Len(scan_result.resources) :
            LET r == scan_result.resources[n]
            IN  (/\ r.resource_type = API_GATEWAY_REST
                 /\ ~ListedAsProtected(r.arn)
                 /\ StagePolicies(r) # {})
                    => /\ r.web_acl = Some(FirstStagePolicy(r))
                       /\ get_compliance_status(r) = "COMPLIANT"
                       /\ is_compliant(r)

\* a scan ended with the REST API under the policy of its stage dev, its
\* stage prod having no policy
C24_Witness ==
    /\ pc = "done"
    /\ include_waf_lookup
    /\ ~ListedAsProtected(RestApiArn)
    /\ ListedAsProtected(StageDev)
    /\ ~ListedAsProtected(StageProd)
    /\ \E n \in 1..Len(scan_result.resources) :
          /\ scan_result.resources[n].arn = RestApiArn
          /\ scan_result.resources[n].resource_type = API_GATEWAY_REST
          /\ scan_result.resources[n].web_acl # None
          /\ scan_result.resources[n].web_acl[1].id = "p1"

-----------------------------------------------------------------------------
(* C25: the Lambda handler and its target accounts                         *)

\* the accounts each value of TARGET_ACCOUNTS configures, as Python's
\* split(",") and strip() give them
ExpectedTargets ==
    [env \in TargetAccountsEnv |->
        CASE env = "" -> <<"local">>
          [] env = " , " -> <<"local">>
          [] env = "111122223333" -> <<"111122223333">>
          [] env = "111122223333,444455556666" -> <<"111122223333", "444455556666">>
          [] env = " 444455556666 ,,111122223333" -> <<"444455556666", "111122223333">>
          [] env = "444455556666,444455556666" -> <<"444455556666", "444455556666">>
          [] env = "local,444455556666" -> <<"local", "444455556666">>]

\* the accounts the handler started on, in order
Attempts ==
    LET IsAttempt(c) == c.op = "set_context"
        started == SelectSeq(call_log, IsAttempt)
    IN  [n \in 1..Len(started) |-> started[n].what]

\* C25: when the handler has responded, the accounts it started on are the
\* target accounts, each once and in order (the pseudo-account "local" alone
\* when none is configured); every assume_role or scan that failed is in
\* the response's errors, in order, under its account and with its message;
\* every other account has a result; accounts_scanned + accounts_failed is
\* the number of target accounts; statusCode is 200 if no account failed and
\* 207 otherwise.
C25_EveryAccountOnce ==
    pc = "responded" =>
        LET targets == ExpectedTargets[invocation.TARGET_ACCOUNTS]
            response == invocation.response[1]
        IN  /\ Attempts = targets
            /\ response.body.errors =
                  [n \in 1..Len(api_log) |->
                      [account_id |-> api_log[n].target, error |-> ExcOf(api_log[n].kind)]]
            /\ response.body.accounts_failed = Len(api_log)
            /\ response.body.accounts_scanned = Len(targets) - Len(api_log)
            /\ Len(response.body.results_by_account) = response.body.accounts_scanned
            /\ response.body.accounts_scanned + response.body.accounts_failed
                  = Len(targets)
            /\ response.statusCode = (IF api_log = <<>> THEN 200 ELSE 207)

\* the role of the first of two accounts could not be assumed, the second
\* account was scanned, and the response says 207
C25_Witness ==
    /\ pc = "responded"
    /\ invocation.target_accounts = <<"111122223333", "444455556666">>
    /\ Len(api_log) = 1
    /\ api_log[1].op = "assume_role"
    /\ api_log[1].target = "111122223333"
    /\ invocation.response[1].statusCode = 207
    /\ invocation.response[1].body.accounts_scanned = 1
    /\ invocation.response[1].body.results_by_account[1].account_id = "444455556666"

-----------------------------------------------------------------------------
(* C27: the overall compliance rate of the Lambda response                 *)

\* two rates are the same number
SameRate(a, b) == a.num * b.den = b.num * a.den

\* 100 x the compliant resources of the n-th scanned account, from the rate
\* the account reports
CompliantTimes100(results, n) ==
    IF results[n].total_resources = 0 THEN 0 ELSE results[n].compliance_rate.num

\* C27: in the response, overall_compliance_rate is 100 x the compliant
\* resources summed over the scanned accounts, divided by the resources
\* summed over them, and 100.0 when there is no resource; so it is 100.0
\* whenever every scanned account reports compliance_rate 100.0.
C27_OverallAgreesWithAccounts ==
    pc = "responded" =>
        LET results == invocation.response[1].body.results_by_account
            overall == invocation.response[1].body.overall_compliance_rate
            total == SumSeq([n \in 1..Len(results) |-> results[n].total_resources])
            compliant100 == SumSeq([n \in 1..Len(results) |->
                                        CompliantTimes100(results, n)])
        IN  /\ total = 0 => SameRate(overall, Ratio(100, 1))
            /\ total > 0 => SameRate(overall, Ratio(compliant100, total))
            /\ (\A n \in 1..Len(results) :
                    SameRate(results[n].compliance_rate, Ratio(100, 1)))
                  => SameRate(overall, Ratio(100, 1))

\* what holds of the rate: it is the share of the resources with a direct
\* policy, and 100.0 when there is no resource
C27_OverallIsCoverage ==
    pc = "responded" =>
        LET body == invocation.response[1].body
        IN  /\ body.total_resources = 0 => SameRate(body.overall_compliance_rate, Ratio(100, 1))
            /\ body.total_resources > 0 =>
                  SameRate(body.overall_compliance_rate,
                           Ratio(body.resources_with_waf * 100, body.total_resources))

-----------------------------------------------------------------------------
(* C26: a scan without the policy lookup                                   *)

\* the calls that build the two indexes or derive a hostname
LookupCalls ==
    {n \in 1..Len(call_log) :
        call_log[n].op \in {"get_waf_associations_map", "_list_web_acls_with_resources",
                            "get_cloudfront_origins_map", "match_resource_to_origin"}}

\* what list_resources returns for the pairs of the scan, in the order of
\* the loops, every call answering
Enumerated ==
    LET allOk == [n \in 1..Len(cloud.distributions) |-> "ok"]
        OfPair(a, b) ==
            IF resource_types[b] = CLOUDFRONT /\ regions[a] # "us-east-1" THEN <<>>
            ELSE list_resources(resource_types[b], regions[a], "ok", allOk).value
        OfRegion(a) == Flatten([b \in 1..Len(resource_types) |-> OfPair(a, b)])
    IN  Flatten([a \in 1..Len(regions) |-> OfRegion(a)])

\* C26: a scan with include_waf_lookup = False never calls the builder of
\* the association index, the builder of the origin index or the hostname
\* deriver, and the resources it returns are the enumerated ones, in order,
\* with the direct policy and the fronted-by fields the enumeration gave
\* them (only the scan time is added).
C26_NoLookup ==
    ~include_waf_lookup =>
        /\ LookupCalls = {}
        /\ waf_map = EmptyDict /\ origins_map = EmptyDict
        /\ pc = "done" =>
              [n \in 1..Len(scan_result.resources) |->
                  [scan_result.resources[n] EXCEPT !.scanned_at = None]] = Enumerated

\* a scan without the lookup returned a distribution with the policy of its
\* own configuration and a REST API without one, although a regional policy
\* protects a stage of the API and a distribution fronts it
C26_Witness ==
    /\ pc = "done"
    /\ ~include_waf_lookup
    /\ ListedAsProtected(StageProd)
    /\ \E n \in 1..Len(scan_result.resources) :
          /\ scan_result.resources[n].resource_type = CLOUDFRONT
          /\ scan_result.resources[n].web_acl # None
    /\ \E n \in 1..Len(scan_result.resources) :
          /\ scan_result.resources[n].arn = RestApiArn
          /\ scan_result.resources[n].web_acl = None
          /\ scan_result.resources[n].fronted_by_waf = None
    /\ cloud.distributions[2].WebACLId = GlobalAcl2

-----------------------------------------------------------------------------
(* C28: when the distributions are enumerated                              *)

\* the enumerations of distributions the scan has asked for
DistributionListings ==
    {n \in 1..Len(call_log) :
        call_log[n].op = "list_resources" /\ call_log[n].what = CLOUDFRONT}

\* the calls of the origin index builder that failed
OriginFailures ==
    {n \in 1..Len(api_log) :
        api_log[n].op \in {"list_distributions", "get_distribution"}
            /\ api_log[n].resource_type = ""}

NoDuplicates(seq) == \A a, b \in 1..Len(seq) : seq[a] = seq[b] => a = b

ScansUsEast1 == \E a \in 1..Len(regions) : regions[a] = "us-east-1"

\* C28: the scan asks for the distributions only for region us-east-1, at
\* most once when no region is given twice, and never when us-east-1 is not
\* scanned; then the finished scan holds no distribution and no error
\* record for distributions, while the origin index, when it is built, is
\* built from all the distributions of the account.
C28_DistributionsInUsEast1 ==
    pc # "start" =>
        /\ \A n \in DistributionListings : call_log[n].region = "us-east-1"
        /\ NoDuplicates(regions) => Cardinality(DistributionListings) <= 1
        /\ ~ScansUsEast1 =>
              /\ DistributionListings = {}
              /\ \A n \in 1..Len(scan_result.resources) :
                    scan_result.resources[n].resource_type # CLOUDFRONT
              /\ \A n \in 1..Len(scan_result.errors) :
                    scan_result.errors[n].resource_type # CLOUDFRONT
              /\ (pc = "done" /\ include_waf_lookup /\ OriginFailures = {}) =>
                    /\ origins_map = FullOriginsMap
                    /\ \A d \in 1..Len(cloud.distributions) :
                          \E host \in DOMAIN origins_map :
                              \E q \in 1..Len(origins_map[host]) :
                                  origins_map[host][q].cloudfront_id
                                      = cloud.distributions[d].Id
        /\ (pc = "done" /\ ScansUsEast1
                /\ \E b \in 1..Len(resource_types) : resource_types[b] = CLOUDFRONT)
              => Cardinality(DistributionListings) = 1

\* a scan of eu-west-1 alone, all types, ended with an HTTP gateway and an
\* error record in the result, no distribution, and the load balancer's
\* hostname in the origin index
C28_Witness ==
    /\ pc = "done"
    /\ regions = <<"eu-west-1">>
    /\ include_waf_lookup
    /\ \E b \in 1..Len(resource_types) : resource_types[b] = CLOUDFRONT
    /\ DistributionListings = {}
    /\ AlbDns \in DOMAIN origins_map
    /\ scan_result.errors # <<>>
    /\ \E n \in 1..Len(scan_result.resources) :
          scan_result.resources[n].resource_type = API_GATEWAY_HTTP

\* a scan of both regions ended having asked for the distributions once
C28_WitnessOnce ==
    /\ pc = "done"
    /\ Len(regions) = 2
    /\ Cardinality(DistributionListings) = 1

-----------------------------------------------------------------------------
(* C29: the direct policy of a distribution                                *)

\* the distributions of the account with the identifier arn
DistributionsWithArn(arn) ==
    {d \in 1..Len(cloud.distributions) : cloud.distributions[d].ARN = arn}

\* the policy the WebACLId of a distribution's configuration names: none
\* when it is empty or has fewer than three '/'-separated parts
OwnPolicy(web_acl_id) ==
    IF web_acl_id = "" \/ Len(Split(web_acl_id, "/")) < 3 THEN None
    ELSE Some(WebACL(web_acl_id,
                     Split(web_acl_id, "/")[Len(Split(web_acl_id, "/")) - 1],
                     Split(web_acl_id, "/")[Len(Split(web_acl_id, "/"))],
                     "CLOUDFRONT", "us-east-1"))

\* C29: in every state of a scan, the direct policy of a distribution in the
\* result is the one its own configuration names (none when it names none),
\* whatever the association index holds under the distribution's
\* identifier; no step changes it.
C29_DistributionKeepsOwnPolicy ==
    \A n \in 1..Len(scan_result.resources) :
        LET r == scan_result.resources[n]
        IN  r.resource_type = CLOUDFRONT =>
                /\ DistributionsWithArn(r.arn) # {}
                /\ \A d \in DistributionsWithArn(r.arn) :
                      r.web_acl = OwnPolicy(cloud.distributions[d].WebACLId)

\* a finished scan in which the association index holds a policy for a
\* distribution whose configuration names none, and for which the result
\* has none
C29_Witness ==
    /\ pc = "done"
    /\ include_waf_lookup
    /\ Dist1Arn \in DOMAIN waf_map
    /\ \E n \in 1..Len(scan_result.resources) :
          /\ scan_result.resources[n].arn = Dist1Arn
          /\ scan_result.resources[n].resource_type = CLOUDFRONT
          /\ scan_result.resources[n].web_acl = None
    /\ \E n \in 1..Len(scan_result.resources) :
          /\ scan_result.resources[n].resource_type = CLOUDFRONT
          /\ scan_result.resources[n].arn # Dist1Arn
          /\ scan_result.resources[n].web_acl # None

-----------------------------------------------------------------------------
(* C30: the Fronted-By Propagator is monotone for compliance               *)

\* one step of the propagation: building the origin index or handling one
\* resource
MonotoneStep ==
    (pc = "origins" \/ pc = "enrich") =>
        /\ Len(scan_result'.resources) = Len(scan_result.resources)
        /\ \A n \in 1..Len(scan_result.resources) :
              is_compliant(scan_result.resources[n])
                  => is_compliant(scan_result'.resources[n])
        /\ compliant_resources(scan_result') >= compliant_resources(scan_result)
        /\ non_compliant_resources(scan_result') <= non_compliant_resources(scan_result)
        /\ resources_with_waf(scan_result') = resources_with_waf(scan_result)
        /\ resources_without_waf(scan_result') = resources_without_waf(scan_result)

\* C30: over every step of the propagation no compliant resource becomes
\* non-compliant, the count of compliant resources does not decrease, the
\* count of non-compliant resources does not increase, and the counts of
\* resources with and without a direct policy stay the same.
C30_PropagatorMonotone == [][MonotoneStep]_vars

\* the propagation made a public load balancer without a direct policy
\* compliant, its direct policy still missing
C30_Witness ==
    /\ pc = "done"
    /\ include_waf_lookup
    /\ non_compliant_resources(scan_result) > 0
    /\ \E n \in 1..Len(scan_result.resources) :
          LET r == scan_result.resources[n]
          IN  /\ r.resource_type = ALB
              /\ r.is_public
              /\ ~has_waf(r)
              /\ r.fronted_by_waf # None
              /\ is_compliant(r)
              /\ ~is_compliant([r EXCEPT !.fronted_by_waf = None])

====
